---------------------------- MODULE Spec2Model ----------------------------
(***************************************************************************)
(* A model of the entity-component store of the ECS engine:                *)
(*   - ComponentStorage<T>  (engine/core/ComponentStorage.h), a slot array *)
(*     with a parallel validity array, a free list and a count;            *)
(*   - EntityManager<Components...> (engine/managers/EntityManager.h),     *)
(*     which owns one ComponentStorage per component type and maps every   *)
(*     entity to its slot in each of them.                                 *)
(*                                                                         *)
(* Slot indices and entity ids are 0-based as in the source; TLA+          *)
(* sequences are 1-based, so element i of a std::vector is seq[i + 1].     *)
(*                                                                         *)
(* The model is that of a build with assertions enabled (no NDEBUG): a     *)
(* failed assert() ends the program.  `aborted` then holds the text of the *)
(* assertion that failed ("" while the program runs), and no operation     *)
(* runs after it.  Calls on the EntityManager are identified in the        *)
(* properties by their actions; a call that only reads is a stuttering     *)
(* step.                                                                   *)
(***************************************************************************)
EXTENDS Integers, Sequences, FiniteSets, TLC

VARIABLES
    cs,          \* a stand-alone ComponentStorage<int>: mStorage, mValid, mFreeList, mCount
    csOp,        \* the last call made on cs: its name, argument, result, assertion outcome
    csFreed,     \* history: the slots of cs removed and not handed out since, oldest first
    nStored,     \* history: the number of store() calls made on cs
    nRemoved,    \* history: the number of remove() calls on cs that passed their assertion
    mEntities,               \* EntityManager: vector<Entity>, one [id, name] per entity slot
    mEntityToComponentIdx,   \* EntityManager: per entity, the slot index in each component type's storage
    mFreeList,               \* EntityManager: free entity ids
    mValid,                  \* EntityManager: valid entity ids
    mRegistries,             \* EntityManager: one ComponentStorage per component type
    earlyReturn,             \* history: the call that has just returned at its validity guard, "" otherwise
    liveEntities,            \* history: per id, the number of entities created with it and not destroyed
    staleHandles,            \* history: the ids callers still hold of entities that were destroyed
    rects,       \* the two Rect values a RectIntersect test is made on
    intersects,  \* <<>> before the test, then <<r1.RectIntersect(r2), r2.RectIntersect(r1)>>
    entityManager,  \* the engine's EntityManager: mEntities, mValid, mFreeList and the components
    pass,        \* the locals of CollisionSystem: entities, i, j, theCamera, thePlayer
    pc,          \* the function the engine is about to run, "idle" outside the engine
    engine,      \* ECSEngine::Run: the window's isOpen, deltaTime in milliseconds, frames begun
    trace,       \* history: the systems run in this frame and what the running system did
    aborted      \* the assertion that failed and ended the process, "" while it runs

storageVars == <<cs, csOp, csFreed, nStored, nRemoved>>

registryVars == <<mEntities, mEntityToComponentIdx, mFreeList, mValid, mRegistries,
                  earlyReturn, liveEntities, staleHandles>>

geometryVars == <<rects, intersects>>

\* What the calls on the stand-alone storage, on the EntityManager and on
\* the geometry types leave alone.
gameVars == <<entityManager, pass, pc, engine, trace>>

exceptStorage == <<registryVars, geometryVars, gameVars>>
exceptRegistry == <<storageVars, geometryVars, gameVars>>
exceptGeometry == <<storageVars, registryVars, gameVars>>
exceptGame == <<storageVars, registryVars, geometryVars>>

(***************************************************************************)
(* Bounds of the model.                                                    *)
(***************************************************************************)
\* The slot array of a storage grows to at most this many slots.
MaxSlots == 3
\* At most this many store() calls are made on the stand-alone storage.
MaxStores == 5
\* Component values are the integers 0 .. MaxValue.
MaxValue == 1

Values == 0 .. MaxValue

\* T {}: the value-initialised component (int {} is 0).
DefaultT == 0

\* Slot indices a caller may pass: every slot that can exist and one past them.
SlotIds == 0 .. MaxSlots

(***************************************************************************)
(* Sequence helpers (std::vector operations).                              *)
(***************************************************************************)
\* vector::back()
Back(s) == s[Len(s)]

\* vector::pop_back()
PopBack(s) == SubSeq(s, 1, Len(s) - 1)

\* vec[i] = x, with the 0-based index i of the source
SetAt(s, i, x) == [s EXCEPT ![i + 1] = x]

\* The set of elements of a sequence.
Range(s) == { s[k] : k \in 1 .. Len(s) }

\* s with every occurrence of x deleted (order kept).
Without(s, x) == SelectSeq(s, LAMBDA y : y # x)

(***************************************************************************)
(* ComponentStorage<T>                                                     *)
(***************************************************************************)
\* A default-constructed storage: empty vectors, mCount = 0.
EmptyStorage == [mStorage |-> <<>>, mValid |-> <<>>, mFreeList |-> <<>>, mCount |-> 0]

\* bool valid(size_t id) const
valid(st, id) == id < Len(st.mValid) /\ st.mValid[id + 1]

\* size_t size() const
size(st) == st.mCount

\* store() taking the oldest entry of the free list instead of the newest.
storeFifo(st, value) ==
    IF st.mFreeList # <<>>
    THEN LET id == Head(st.mFreeList)
         IN  [id |-> id,
              st |-> [st EXCEPT !.mFreeList = Tail(st.mFreeList),
                                !.mStorage  = SetAt(st.mStorage, id, value),
                                !.mValid    = SetAt(st.mValid, id, TRUE),
                                !.mCount    = st.mCount + 1]]
    ELSE [id |-> Len(st.mStorage),
          st |-> [st EXCEPT !.mStorage = Append(st.mStorage, value),
                            !.mValid   = Append(st.mValid, TRUE),
                            !.mCount   = st.mCount + 1]]

\* store() that reuses the back of the free list without popping it.
storeNoPop(st, value) ==
    IF st.mFreeList # <<>>
    THEN LET id == Back(st.mFreeList)
         IN  [id |-> id,
              st |-> [st EXCEPT !.mStorage  = SetAt(st.mStorage, id, value),
                                !.mValid    = SetAt(st.mValid, id, TRUE),
                                !.mCount    = st.mCount + 1]]
    ELSE [id |-> Len(st.mStorage),
          st |-> [st EXCEPT !.mStorage = Append(st.mStorage, value),
                            !.mValid   = Append(st.mValid, TRUE),
                            !.mCount   = st.mCount + 1]]

\* size_t store(const T& value) / size_t store(T&& value): the id returned
\* and the storage afterwards.
store(st, value) ==
    IF st.mFreeList # <<>>
    THEN LET id == Back(st.mFreeList)
         IN  [id |-> id,
              st |-> [st EXCEPT !.mFreeList = PopBack(st.mFreeList),
                                !.mStorage  = SetAt(st.mStorage, id, value),
                                !.mValid    = SetAt(st.mValid, id, TRUE),
                                !.mCount    = st.mCount + 1]]
    ELSE [id |-> Len(st.mStorage),
          st |-> [st EXCEPT !.mStorage = Append(st.mStorage, value),
                            !.mValid   = Append(st.mValid, TRUE),
                            !.mCount   = st.mCount + 1]]

\* remove() that forgets to decrement mCount.
removeNoCount(st, id) ==
    [st EXCEPT !.mValid    = SetAt(st.mValid, id, FALSE),
               !.mStorage  = SetAt(st.mStorage, id, DefaultT),
               !.mFreeList = Append(st.mFreeList, id)]

\* void remove(size_t id), past its assert(valid(id)).
remove(st, id) ==
    [st EXCEPT !.mValid    = SetAt(st.mValid, id, FALSE),
               !.mStorage  = SetAt(st.mStorage, id, DefaultT),
               !.mFreeList = Append(st.mFreeList, id),
               !.mCount    = st.mCount - 1]

\* The assert(valid(id)) of remove() and of the mutable operator[].
AssertValid(st, id) == valid(st, id)

\* No assertion has failed: the process is running.
Running == aborted = ""

\* What const operator[] returns for id: the element when id indexes the
\* vector (it makes no validity check at all); an out-of-range read of the
\* vector is undefined behaviour and may produce any value.
ConstGetResults(st, id) ==
    IF id < Len(st.mStorage) THEN { st.mStorage[id + 1] } ELSE Values

\* The record of a call on the stand-alone storage.
OpRec(op, id, ret, asserted) ==
    [op |-> op, id |-> id, ret |-> ret, asserted |-> asserted]

NoOp == OpRec("none", 0, <<>>, FALSE)

(***************************************************************************)
(* Calls on the stand-alone storage.                                       *)
(***************************************************************************)
\* The room store() needs in the model: a free slot or an array below MaxSlots.
CanStore(st) == st.mFreeList # <<>> \/ Len(st.mStorage) < MaxSlots

\* id = storage.store(value), by copy.
StoreCopy(value) ==
    /\ Running
    /\ CanStore(cs)
    /\ nStored < MaxStores
    /\ LET r == store(cs, value)
       IN  /\ cs' = r.st
           /\ csOp' = OpRec("store", r.id, <<value>>, FALSE)
           /\ csFreed' = Without(csFreed, r.id)
    /\ nStored' = nStored + 1
    /\ UNCHANGED <<nRemoved, aborted>>
    /\ UNCHANGED exceptStorage

\* id = storage.store(std::move(value)).
StoreMove(value) ==
    /\ Running
    /\ CanStore(cs)
    /\ nStored < MaxStores
    /\ LET r == store(cs, value)
       IN  /\ cs' = r.st
           /\ csOp' = OpRec("store", r.id, <<value>>, FALSE)
           /\ csFreed' = Without(csFreed, r.id)
    /\ nStored' = nStored + 1
    /\ UNCHANGED <<nRemoved, aborted>>
    /\ UNCHANGED exceptStorage

\* storage.remove(id)
Remove(id) ==
    /\ Running
    /\ IF AssertValid(cs, id)
       THEN /\ cs' = remove(cs, id)
            /\ csOp' = OpRec("remove", id, <<>>, FALSE)
            /\ csFreed' = Append(csFreed, id)
            /\ nRemoved' = nRemoved + 1
            /\ UNCHANGED <<nStored, aborted>>
       ELSE /\ csOp' = OpRec("remove", id, <<>>, TRUE)
            /\ aborted' = "valid(id)"
            /\ UNCHANGED <<cs, csFreed, nStored, nRemoved>>
    /\ UNCHANGED exceptStorage

\* storage[id] = value through the mutable operator[].
Write(id, value) ==
    /\ Running
    /\ IF AssertValid(cs, id)
       THEN /\ cs' = [cs EXCEPT !.mStorage = SetAt(cs.mStorage, id, value)]
            /\ csOp' = OpRec("write", id, <<value>>, FALSE)
            /\ UNCHANGED <<csFreed, nStored, nRemoved, aborted>>
       ELSE /\ csOp' = OpRec("write", id, <<>>, TRUE)
            /\ aborted' = "valid(id)"
            /\ UNCHANGED <<cs, csFreed, nStored, nRemoved>>
    /\ UNCHANGED exceptStorage

\* x = storage[id] through the mutable operator[].
Get(id) ==
    /\ Running
    /\ IF AssertValid(cs, id)
       THEN /\ csOp' = OpRec("get", id, <<cs.mStorage[id + 1]>>, FALSE)
            /\ UNCHANGED <<cs, csFreed, nStored, nRemoved, aborted>>
       ELSE /\ csOp' = OpRec("get", id, <<>>, TRUE)
            /\ aborted' = "valid(id)"
            /\ UNCHANGED <<cs, csFreed, nStored, nRemoved>>
    /\ UNCHANGED exceptStorage

\* x = storage[id] through the const operator[]: no assertion is made.
ConstGet(id) ==
    /\ Running
    /\ \E x \in ConstGetResults(cs, id) :
           csOp' = OpRec("cget", id, <<x>>, FALSE)
    /\ UNCHANGED <<cs, csFreed, nStored, nRemoved, aborted>>
    /\ UNCHANGED exceptStorage

StorageInit ==
    /\ cs = EmptyStorage
    /\ csOp = NoOp
    /\ csFreed = <<>>
    /\ nStored = 0
    /\ nRemoved = 0

StorageNext ==
    \/ \E v \in Values : StoreCopy(v)
    \/ \E v \in Values : StoreMove(v)
    \/ \E id \in SlotIds : Remove(id)
    \/ \E id \in SlotIds, v \in Values : Write(id, v)
    \/ \E id \in SlotIds : Get(id)
    \/ \E id \in SlotIds : ConstGet(id)

vars == <<cs, csOp, csFreed, nStored, nRemoved,
          mEntities, mEntityToComponentIdx, mFreeList, mValid, mRegistries,
          earlyReturn, liveEntities, staleHandles, rects, intersects,
          entityManager, pass, pc, engine, trace, aborted>>

(***************************************************************************)
(* EntityManager<Components...>                                            *)
(***************************************************************************)
\* The entity slot array grows to at most this many entities.
MaxEntities == 2

\* Pack<Components...>::size: the number of component types.
NUM_COMPONENTS == 2

\* The component type ids Pack<Components...>::index<T> yields.
CompTypes == 0 .. NUM_COMPONENTS - 1

\* std::numeric_limits<size_t>::max(), the "absent" slot index: modelled by
\* the largest 32-bit integer, which no slot index reaches either.
INVALID_COMPONENT_INDEX == 2147483647

\* Entity ids a caller may pass: every id that can exist and one past them.
EntityIds == 0 .. MaxEntities

\* Entity names (main.cpp:45 creates "test").
Names == {"test"}

\* Entity(): id 0 and an empty name; Entity{id, name}.
Entity(id, name) == [id |-> id, name |-> name]

\* bool ValidEntity(EntityID id) const
ValidEntity(id) == id < Len(mValid) /\ mValid[id + 1]

\* The component index row CreateEntity pushes: every type absent.
EmptyRow == [t \in CompTypes |-> INVALID_COMPONENT_INDEX]

\* bool HasComponent<T>(entity), past its assertion.
HasComponent(t, entity) ==
    mEntityToComponentIdx[entity + 1][t] # INVALID_COMPONENT_INDEX

\* The model's room for CreateEntity: a free id or fewer than MaxEntities slots.
CanCreate == mFreeList # <<>> \/ Len(mEntityToComponentIdx) < MaxEntities

\* CreateEntity that reuses the back of the free list without popping it.
createEntityNoPop(name) ==
    IF mFreeList # <<>>
    THEN LET ret == Back(mFreeList)
         IN  [ret |-> ret,
              mFreeList |-> mFreeList,
              mValid |-> SetAt(mValid, ret, TRUE),
              mEntities |-> SetAt(mEntities, ret, Entity(ret, name)),
              mEntityToComponentIdx |-> mEntityToComponentIdx]
    ELSE LET ret == Len(mEntityToComponentIdx)
         IN  [ret |-> ret,
              mFreeList |-> mFreeList,
              mValid |-> Append(mValid, TRUE),
              mEntities |-> Append(mEntities, Entity(ret, name)),
              mEntityToComponentIdx |-> Append(mEntityToComponentIdx, EmptyRow)]

\* CreateEntity that reuses the front of the free list, the id freed first.
createEntityFifo(name) ==
    IF mFreeList # <<>>
    THEN LET ret == Head(mFreeList)
         IN  [ret |-> ret,
              mFreeList |-> Tail(mFreeList),
              mValid |-> SetAt(mValid, ret, TRUE),
              mEntities |-> SetAt(mEntities, ret, Entity(ret, name)),
              mEntityToComponentIdx |-> mEntityToComponentIdx]
    ELSE LET ret == Len(mEntityToComponentIdx)
         IN  [ret |-> ret,
              mFreeList |-> mFreeList,
              mValid |-> Append(mValid, TRUE),
              mEntities |-> Append(mEntities, Entity(ret, name)),
              mEntityToComponentIdx |-> Append(mEntityToComponentIdx, EmptyRow)]

\* EntityID CreateEntity(const std::string& name): the id returned and the
\* fields it writes.
createEntity(name) ==
    IF mFreeList # <<>>
    THEN LET ret == Back(mFreeList)
         IN  [ret |-> ret,
              mFreeList |-> PopBack(mFreeList),
              mValid |-> SetAt(mValid, ret, TRUE),
              mEntities |-> SetAt(mEntities, ret, Entity(ret, name)),
              mEntityToComponentIdx |-> mEntityToComponentIdx]
    ELSE LET ret == Len(mEntityToComponentIdx)
         IN  [ret |-> ret,
              mFreeList |-> mFreeList,
              mValid |-> Append(mValid, TRUE),
              mEntities |-> Append(mEntities, Entity(ret, name)),
              mEntityToComponentIdx |-> Append(mEntityToComponentIdx, EmptyRow)]

\* RemoveComponentByIndex(compTypeID, compID): the fold expression calls
\* remove(compID) on the one registry whose index is compTypeID.
RemoveComponentByIndex(regs, compTypeID, compID) ==
    [regs EXCEPT ![compTypeID] = remove(regs[compTypeID], compID)]

\* The component loop of RemoveEntity left out altogether: the row keeps its
\* entries.
RemoveEntityComponentsKeepingRow(regs, row, compTypeID) ==
    [regs |-> regs, row |-> row, asserted |-> FALSE]

\* The component loop of RemoveEntity skipped: the row is reset, no storage
\* is touched.
RemoveEntityComponentsSkipped(regs, row, compTypeID) ==
    [regs |-> regs, row |-> EmptyRow, asserted |-> FALSE]

\* The component loop of RemoveEntity from compTypeID on: every present
\* component is removed from its storage and its entry reset; remove()'s
\* assertion ends the loop where it fails.
RECURSIVE RemoveEntityComponents(_, _, _)
RemoveEntityComponents(regs, row, compTypeID) ==
    IF compTypeID = NUM_COMPONENTS
    THEN [regs |-> regs, row |-> row, asserted |-> FALSE]
    ELSE LET compID == row[compTypeID]
         IN  IF compID # INVALID_COMPONENT_INDEX
             THEN IF AssertValid(regs[compTypeID], compID)
                  THEN RemoveEntityComponents(
                           RemoveComponentByIndex(regs, compTypeID, compID),
                           [row EXCEPT ![compTypeID] = INVALID_COMPONENT_INDEX],
                           compTypeID + 1)
                  ELSE [regs |-> regs, row |-> row, asserted |-> TRUE]
             ELSE RemoveEntityComponents(regs, row, compTypeID + 1)

\* RemoveEntity's guard with the validity flag left out: only the range is tested.
RemoveEntityReturnsEarlyRangeOnly(entity) == ~(entity < Len(mValid))

\* if (!ValidEntity(entity) && "Remove") return;  -- the string literal is
\* a non-null pointer, so the condition is !ValidEntity(entity).
RemoveEntityReturnsEarly(entity) == ~ValidEntity(entity) /\ TRUE

\* if (!ValidEntity(entity) && "RemoveComp") return;
RemoveComponentReturnsEarly(entity) == ~ValidEntity(entity) /\ TRUE

\* AddComponent's second assertion left out.
AddComponentAssertsNothing(t, entity) == TRUE

(***************************************************************************)
(* Calls on the EntityManager.                                             *)
(***************************************************************************)
\* id = CreateEntity(name)
CreateEntity(name) ==
    /\ Running
    /\ CanCreate
    /\ LET r == createEntity(name)
       IN  /\ mFreeList' = r.mFreeList
           /\ mValid' = r.mValid
           /\ mEntities' = r.mEntities
           /\ mEntityToComponentIdx' = r.mEntityToComponentIdx
           /\ liveEntities' = [liveEntities EXCEPT ![r.ret] = @ + 1]
    /\ earlyReturn' = ""
    /\ UNCHANGED <<mRegistries, staleHandles, aborted>>
    /\ UNCHANGED exceptRegistry

\* RemoveEntity(entity)
RemoveEntity(entity) ==
    /\ Running
    /\ IF RemoveEntityReturnsEarly(entity)
       THEN /\ earlyReturn' = "RemoveEntity"
            /\ UNCHANGED <<mEntities, mEntityToComponentIdx, mFreeList, mValid,
                           mRegistries, liveEntities, staleHandles, aborted>>
       ELSE LET r == RemoveEntityComponents(mRegistries,
                                            mEntityToComponentIdx[entity + 1], 0)
            IN  /\ mRegistries' = r.regs
                /\ mEntityToComponentIdx' = SetAt(mEntityToComponentIdx, entity, r.row)
                /\ earlyReturn' = ""
                /\ IF r.asserted
                   THEN /\ aborted' = "valid(id)"
                        /\ UNCHANGED <<mEntities, mValid, mFreeList,
                                       liveEntities, staleHandles>>
                   ELSE /\ mEntities' = SetAt(mEntities, entity, Entity(0, ""))
                        /\ mValid' = SetAt(mValid, entity, FALSE)
                        /\ mFreeList' = Append(mFreeList, entity)
                        /\ liveEntities' = [liveEntities EXCEPT
                                                ![entity] = IF @ > 0 THEN @ - 1 ELSE 0]
                        /\ staleHandles' = staleHandles \cup {entity}
                        /\ UNCHANGED aborted
    /\ UNCHANGED exceptRegistry

\* assert(compID == INVALID_COMPONENT_INDEX) of AddComponent<T>, reached
\* with a valid entity: the entity does not hold a T yet.
AddComponentAssertsAbsent(t, entity) ==
    mEntityToComponentIdx[entity + 1][t] = INVALID_COMPONENT_INDEX

\* AddComponent<T>(entity, component)
AddComponent(t, entity, component) ==
    /\ Running
    /\ IF ~ValidEntity(entity)
       THEN /\ aborted' = "AddComp"
            /\ UNCHANGED <<mRegistries, mEntityToComponentIdx>>
       ELSE IF ~AddComponentAssertsAbsent(t, entity)
            THEN /\ aborted' = "compID == INVALID_COMPONENT_INDEX"
                 /\ UNCHANGED <<mRegistries, mEntityToComponentIdx>>
            ELSE LET r == store(mRegistries[t], component)
                 IN  /\ mRegistries' = [mRegistries EXCEPT ![t] = r.st]
                     /\ mEntityToComponentIdx' =
                            [mEntityToComponentIdx EXCEPT ![entity + 1][t] = r.id]
                     /\ UNCHANGED aborted
    /\ earlyReturn' = ""
    /\ UNCHANGED <<mEntities, mFreeList, mValid, liveEntities, staleHandles>>
    /\ UNCHANGED exceptRegistry

\* RemoveComponent<T>(entity)
RemoveComponent(t, entity) ==
    /\ Running
    /\ IF RemoveComponentReturnsEarly(entity)
       THEN /\ earlyReturn' = "RemoveComponent"
            /\ UNCHANGED <<mRegistries, mEntityToComponentIdx, aborted>>
       ELSE LET compID == mEntityToComponentIdx[entity + 1][t]
            IN  /\ earlyReturn' = ""
                /\ IF compID # INVALID_COMPONENT_INDEX
                   THEN IF AssertValid(mRegistries[t], compID)
                        THEN /\ mRegistries' =
                                    [mRegistries EXCEPT ![t] = remove(@, compID)]
                             /\ mEntityToComponentIdx' =
                                    [mEntityToComponentIdx EXCEPT
                                         ![entity + 1][t] = INVALID_COMPONENT_INDEX]
                             /\ UNCHANGED aborted
                        ELSE /\ aborted' = "valid(id)"
                             /\ UNCHANGED <<mRegistries, mEntityToComponentIdx>>
                   ELSE UNCHANGED <<mRegistries, mEntityToComponentIdx, aborted>>
    /\ UNCHANGED <<mEntities, mFreeList, mValid, liveEntities, staleHandles>>
    /\ UNCHANGED exceptRegistry

\* b = HasComponent<T>(entity)
HasComponentCall(t, entity) ==
    /\ Running
    /\ aborted' = IF ValidEntity(entity) THEN "" ELSE "HasComp"
    /\ earlyReturn' = ""
    /\ UNCHANGED <<mEntities, mEntityToComponentIdx, mFreeList, mValid, mRegistries,
                   liveEntities, staleHandles>>
    /\ UNCHANGED exceptRegistry

\* The assertion that fails on the way to the reference
\* GetComponent<T>(entity) returns, "" when none does: the entity must be
\* valid, and its slot index valid in T's storage (asserted by GetComponent
\* and again by operator[]).
GetComponentFailure(t, entity) ==
    IF ~ValidEntity(entity)
    THEN "GetComp"
    ELSE IF ~AssertValid(mRegistries[t], mEntityToComponentIdx[entity + 1][t])
         THEN "registry.valid(compID)"
         ELSE ""

\* The component GetComponent<T>(entity) refers to, past its assertions.
GetComponent(t, entity) ==
    mRegistries[t].mStorage[mEntityToComponentIdx[entity + 1][t] + 1]

\* x = GetComponent<T>(entity)
GetComponentCall(t, entity) ==
    /\ Running
    /\ aborted' = GetComponentFailure(t, entity)
    /\ earlyReturn' = ""
    /\ UNCHANGED <<mEntities, mEntityToComponentIdx, mFreeList, mValid, mRegistries,
                   liveEntities, staleHandles>>
    /\ UNCHANGED exceptRegistry

\* GetComponent<T>(entity) = value: a write through the reference returned.
SetComponent(t, entity, value) ==
    /\ Running
    /\ aborted' = GetComponentFailure(t, entity)
    /\ IF GetComponentFailure(t, entity) = ""
       THEN mRegistries' =
                [mRegistries EXCEPT ![t].mStorage =
                     SetAt(@, mEntityToComponentIdx[entity + 1][t], value)]
       ELSE UNCHANGED mRegistries
    /\ earlyReturn' = ""
    /\ UNCHANGED <<mEntities, mEntityToComponentIdx, mFreeList, mValid,
                   liveEntities, staleHandles>>
    /\ UNCHANGED exceptRegistry

RegistryInit ==
    /\ mEntities = <<>>
    /\ mEntityToComponentIdx = <<>>
    /\ mFreeList = <<>>
    /\ mValid = <<>>
    /\ mRegistries = [t \in CompTypes |-> EmptyStorage]
    /\ earlyReturn = ""
    /\ liveEntities = [id \in EntityIds |-> 0]
    /\ staleHandles = {}

RegistryNext ==
    \/ \E name \in Names : CreateEntity(name)
    \/ \E e \in EntityIds : RemoveEntity(e)
    \/ \E t \in CompTypes, e \in EntityIds, v \in Values : AddComponent(t, e, v)
    \/ \E t \in CompTypes, e \in EntityIds : RemoveComponent(t, e)
    \/ \E t \in CompTypes, e \in EntityIds : HasComponentCall(t, e)
    \/ \E t \in CompTypes, e \in EntityIds : GetComponentCall(t, e)
    \/ \E t \in CompTypes, e \in EntityIds, v \in Values : SetComponent(t, e, v)

(***************************************************************************)
(* Point2D and Rect (engine/core/MathUtil.h).  The float coordinates and   *)
(* the int extents are integers here.                                      *)
(***************************************************************************)
\* The corners of the rectangles tested lie in 0 .. MaxCoord on both axes.
MaxCoord == 3
\* Their width and height lie in 0 .. MaxSize; Rect() is the empty rectangle.
MaxSize == 2

Min(a, b) == IF a < b THEN a ELSE b
Max(a, b) == IF a > b THEN a ELSE b

\* Point2D(x, y)
Point2D(x, y) == [x |-> x, y |-> y]

\* Rect(left, top, width, height)
Rect(left, top, width, height) ==
    [topLeft |-> Point2D(left, top), width |-> width, height |-> height]

\* The rectangles a test is made on.
TestRects ==
    { Rect(x, y, w, h) : x \in 0 .. MaxCoord, y \in 0 .. MaxCoord,
                         w \in 0 .. MaxSize, h \in 0 .. MaxSize }

\* RectIntersect with > for >=: boxes that only touch are not rejected.
RectIntersectTouching(this, other) ==
    LET otherRight == other.topLeft.x + other.width
        thisRight == this.topLeft.x + this.width
        otherBottom == other.topLeft.y + other.height
        thisBottom == this.topLeft.y + this.height
    IN  IF \/ this.topLeft.x > otherRight
           \/ other.topLeft.x > thisRight
           \/ this.topLeft.y > otherBottom
           \/ other.topLeft.y > thisBottom
        THEN FALSE
        ELSE TRUE

\* bool Rect::RectIntersect(const Rect& other) const
RectIntersect(this, other) ==
    LET otherRight == other.topLeft.x + other.width
        thisRight == this.topLeft.x + this.width
        otherBottom == other.topLeft.y + other.height
        thisBottom == this.topLeft.y + this.height
    IN  IF \/ this.topLeft.x >= otherRight
           \/ other.topLeft.x >= thisRight
           \/ this.topLeft.y >= otherBottom
           \/ other.topLeft.y >= thisBottom
        THEN FALSE
        ELSE TRUE

\* rects[1].RectIntersect(rects[2]) and rects[2].RectIntersect(rects[1])
IntersectCall ==
    /\ Running
    /\ intersects = <<>>
    /\ intersects' = <<RectIntersect(rects[1], rects[2]),
                       RectIntersect(rects[2], rects[1])>>
    /\ UNCHANGED <<rects, aborted>>
    /\ UNCHANGED exceptGeometry

\* No rectangle test is under way.
GeometryIdle ==
    /\ rects = <<Rect(0, 0, 0, 0), Rect(0, 0, 0, 0)>>
    /\ intersects = <<>>

\* Two rectangles are given to test.
GeometryInit ==
    /\ rects \in TestRects \X TestRects
    /\ intersects = <<>>

GeometryNext == IntersectCall

(***************************************************************************)
(* The game's EntityManager (main.cpp:58-63) and the collision subsystem   *)
(* (engine/systems/CollisionSystem.h).                                     *)
(*                                                                         *)
(* entityManager holds the fields of the EntityManager the engine owns.    *)
(* Its components are kept per entity: comps[e + 1][T] is the component of  *)
(* type T of entity e and comps[e + 1].has the set of types e holds; the   *)
(* slot a component occupies in its storage is not part of this record.    *)
(* A component that is absent has the value T {} its storage slot is reset *)
(* to.  Floats are integers: every velocity drawn is a multiple of 10 and  *)
(* every overlap halved is even, so that the products with 0.7f and the    *)
(* divisions by 2.0f are exact.                                            *)
(***************************************************************************)
\* The component types of the engine (main.cpp:58-62).
ComponentNames ==
    {"LocationComponent", "MovementComponent", "AccelerationComponent",
     "CollisionComponent", "SpriteComponent", "SpawnComponent", "CameraComponent",
     "CameraFollower", "InputComponent", "CameraShake", "ScoreComponent",
     "TimeComponent"}

\* CollisionComponent(): the value-initialised collision component.
DefaultCollisionComponent ==
    [collidedTop |-> FALSE, collidedBottom |-> FALSE,
     collidedLeft |-> FALSE, collidedRight |-> FALSE,
     wasStandingLast |-> TRUE, wasTouchingWallLast |-> FALSE,
     boundingBoxOffset |-> Point2D(0, 0),
     currentBoundingBox |-> Rect(0, 0, 0, 0),
     previousBoundingBox |-> Rect(0, 0, 0, 0),
     isStatic |-> TRUE, boundingBoxInitialized |-> FALSE]

\* The four contact flags of a collision component, and those that are set.
ContactFlags == {"collidedTop", "collidedBottom", "collidedLeft", "collidedRight"}
FlagsSet(col) == { f \in ContactFlags : col[f] }

\* CollisionComponent(boundingBox, staticEntity)
CollisionComponent(boundingBox, staticEntity) ==
    [DefaultCollisionComponent EXCEPT
        !.boundingBoxOffset = boundingBox.topLeft,
        !.currentBoundingBox = boundingBox,
        !.previousBoundingBox = boundingBox,
        !.isStatic = staticEntity]

\* T {} for every component type: what an entity without a T shows.
DefaultComponents ==
    [has |-> {},
     LocationComponent |-> [position |-> Point2D(0, 0)],
     MovementComponent |-> [velocity |-> Point2D(0, 0), maxSpeed |-> 300],
     AccelerationComponent |-> [acceleration |-> Point2D(0, 0)],
     CollisionComponent |-> DefaultCollisionComponent,
     SpriteComponent |-> [spriteID |-> 0, worldSpace |-> TRUE, isAlive |-> TRUE],
     SpawnComponent |-> [entityType |-> "", spriteID |-> 0, timeToNextSpawn |-> 0,
                         spawnInterval |-> 1000, spawnCount |-> 0, maxSpawns |-> -1],
     CameraComponent |-> [worldUnitsPerPixel |-> 1],
     CameraFollower |-> [entityToTrack |-> 0, followX |-> TRUE, followY |-> TRUE],
     InputComponent |-> [keydown |-> {}],
     CameraShake |-> [isShaking |-> FALSE, horizontal |-> FALSE, elapsedTime |-> 0],
     ScoreComponent |-> [score |-> 0, displayEntities |-> <<>>,
                         digitSprites |-> [d \in 1 .. 10 |-> 0]],
     TimeComponent |-> [totalDuration |-> 0, timeRemaining |-> 0,
                        isRunning |-> FALSE, restart |-> FALSE]]

\* entityManager.ValidEntity(id)
ValidEntityIn(em, id) == id < Len(em.mValid) /\ em.mValid[id + 1]

\* entityManager.HasComponent<T>(entity), past its assertion.
HasComponentIn(em, T, entity) == T \in em.comps[entity + 1].has

\* entityManager.GetComponent<T>(entity), past its assertions: the component
\* the reference denotes.
GetComponentIn(em, T, entity) == em.comps[entity + 1][T]

\* A write through a reference GetComponent<T>(entity) returned.
SetComponentIn(em, T, entity, component) ==
    [em EXCEPT !.comps[entity + 1][T] = component]

\* entityManager.GetEntityName(id), past its assertion.
GetEntityName(em, id) == em.mEntities[id + 1].name

\* x / 2.0f
Half(x) == IF x >= 0 THEN x \div 2 ELSE -((-x) \div 2)

\* The damping left out.
TimesOne(x) == x

\* x * bounceDamping, with bounceDamping = 0.7f
TimesBounceDamping(x) == IF x >= 0 THEN (x * 7) \div 10 ELSE -(((-x) * 7) \div 10)

\* std::abs(x)
Abs(x) == IF x >= 0 THEN x ELSE -x

\* Overlap CalculateOverlap(const Rect& rect1, const Rect& rect2)
CalculateOverlap(rect1, rect2) ==
    LET left1 == rect1.topLeft.x
        right1 == left1 + rect1.width
        top1 == rect1.topLeft.y
        bottom1 == top1 + rect1.height
        left2 == rect2.topLeft.x
        right2 == left2 + rect2.width
        top2 == rect2.topLeft.y
        bottom2 == top2 + rect2.height
    IN  [horizontal |-> Min(right1, right2) - Max(left1, left2),
         vertical |-> Min(bottom1, bottom2) - Max(top1, top2)]

\* The position left where it was: only the box would move.
AddToPositionSkipped(em, entity, dx, dy) == em

\* location.position.x += dx; location.position.y += dy
AddToPosition(em, entity, dx, dy) ==
    LET p == GetComponentIn(em, "LocationComponent", entity).position
    IN  SetComponentIn(em, "LocationComponent", entity,
                       [position |-> Point2D(p.x + dx, p.y + dy)])

\* The box left where it was while the position moves.
AddToBoundingBoxSkipped(em, entity, dx, dy) == em

\* col.currentBoundingBox.topLeft.x += dx; col.currentBoundingBox.topLeft.y += dy
AddToBoundingBox(em, entity, dx, dy) ==
    LET col == GetComponentIn(em, "CollisionComponent", entity)
        p == col.currentBoundingBox.topLeft
    IN  SetComponentIn(em, "CollisionComponent", entity,
            [col EXCEPT !.currentBoundingBox.topLeft = Point2D(p.x + dx, p.y + dy)])

\* col.collidedTop = true, and likewise for the other three flags.
SetCollided(em, entity, flag) ==
    SetComponentIn(em, "CollisionComponent", entity,
        [GetComponentIn(em, "CollisionComponent", entity) EXCEPT ![flag] = TRUE])

\* movement.velocity.x = vx; movement.velocity.y = vy
SetVelocity(em, entity, vx, vy) ==
    SetComponentIn(em, "MovementComponent", entity,
        [GetComponentIn(em, "MovementComponent", entity) EXCEPT
            !.velocity = Point2D(vx, vy)])

\* The velocity of an entity that has a MovementComponent.
Velocity(em, entity) == GetComponentIn(em, "MovementComponent", entity).velocity

\* auto& shake = GetComponent<CameraShake>(theCamera);
\* shake.isShaking = true; shake.horizontal = horizontal;
TriggerShake(em, theCamera, horizontal) ==
    SetComponentIn(em, "CameraShake", theCamera,
        [GetComponentIn(em, "CameraShake", theCamera) EXCEPT
            !.isShaking = TRUE, !.horizontal = horizontal])

\* ResolveCollision, both bodies dynamic and separated horizontally.
ResolveDynamicDynamicHorizontal(em, entity1, entity2, overlap, thePlayer) ==
    LET col1 == GetComponentIn(em, "CollisionComponent", entity1)
        col2 == GetComponentIn(em, "CollisionComponent", entity2)
        halfOverlap == Half(overlap.horizontal)
        entity1IsLeft ==
            col1.currentBoundingBox.topLeft.x < col2.currentBoundingBox.topLeft.x
        d == IF entity1IsLeft THEN -halfOverlap ELSE halfOverlap
        moved == AddToBoundingBox(AddToPosition(
                     AddToBoundingBox(AddToPosition(em, entity1, d, 0), entity1, d, 0),
                     entity2, -d, 0), entity2, -d, 0)
        flagged ==
            IF entity1IsLeft
            THEN SetCollided(SetCollided(moved, entity1, "collidedRight"),
                             entity2, "collidedLeft")
            ELSE SetCollided(SetCollided(moved, entity1, "collidedLeft"),
                             entity2, "collidedRight")
        entity1IsPlayer == entity1 = thePlayer
        entity2IsPlayer == entity2 = thePlayer
        v1 == Velocity(em, entity1)
        v2 == Velocity(em, entity2)
    IN  IF /\ HasComponentIn(em, "MovementComponent", entity1)
           /\ HasComponentIn(em, "MovementComponent", entity2)
        THEN IF ~entity1IsPlayer /\ ~entity2IsPlayer
             THEN SetVelocity(SetVelocity(flagged, entity1,
                                          TimesBounceDamping(v2.x), v1.y),
                              entity2, TimesBounceDamping(v1.x), v2.y)
             ELSE IF ~entity1IsPlayer /\ entity2IsPlayer
             THEN SetVelocity(flagged, entity1, TimesBounceDamping(-v1.x), v1.y)
             ELSE IF entity1IsPlayer /\ ~entity2IsPlayer
             THEN SetVelocity(flagged, entity2, TimesBounceDamping(-v2.x), v2.y)
             ELSE flagged
        ELSE flagged

\* ResolveCollision, both bodies dynamic and separated vertically.  Here the
\* player is the body that has an InputComponent.
ResolveDynamicDynamicVertical(em, entity1, entity2, overlap) ==
    LET col1 == GetComponentIn(em, "CollisionComponent", entity1)
        col2 == GetComponentIn(em, "CollisionComponent", entity2)
        halfOverlap == Half(overlap.vertical)
        entity1IsAbove ==
            col1.currentBoundingBox.topLeft.y < col2.currentBoundingBox.topLeft.y
        d == IF entity1IsAbove THEN -halfOverlap ELSE halfOverlap
        moved == AddToBoundingBox(AddToPosition(
                     AddToBoundingBox(AddToPosition(em, entity1, 0, d), entity1, 0, d),
                     entity2, 0, -d), entity2, 0, -d)
        flagged ==
            IF entity1IsAbove
            THEN SetCollided(SetCollided(moved, entity1, "collidedBottom"),
                             entity2, "collidedTop")
            ELSE SetCollided(SetCollided(moved, entity1, "collidedTop"),
                             entity2, "collidedBottom")
        entity1IsPlayer == HasComponentIn(em, "InputComponent", entity1)
        entity2IsPlayer == HasComponentIn(em, "InputComponent", entity2)
        v1 == Velocity(em, entity1)
        v2 == Velocity(em, entity2)
        n1 == TimesBounceDamping(v2.y)
        n2 == TimesBounceDamping(v1.y)
        settled == Abs(n1) < 10 /\ Abs(n2) < 10
    IN  IF /\ HasComponentIn(em, "MovementComponent", entity1)
           /\ HasComponentIn(em, "MovementComponent", entity2)
           /\ ~entity1IsPlayer /\ ~entity2IsPlayer
        THEN SetVelocity(SetVelocity(flagged, entity1,
                                     IF settled THEN 0 ELSE v1.x, n1),
                         entity2, IF settled THEN 0 ELSE v2.x, n2)
        ELSE flagged

\* The player sent back from the wall like any other body.
PlayerBouncesAtWall(v) == Point2D(TimesBounceDamping(-v.x), v.y)

\* The player's velocity after a wall contact: movement.velocity.x = 0.0f;
\* if (movement.velocity.y > 150.0f) movement.velocity.y = 150.0f;
PlayerAtWall(v) == Point2D(0, IF v.y > 150 THEN 150 ELSE v.y)

\* ResolveCollision, a static body among the two, separated horizontally.
ResolveStaticDynamicHorizontal(em, entity1, entity2, overlap, theCamera, thePlayer) ==
    LET col1 == GetComponentIn(em, "CollisionComponent", entity1)
        dynamicEntity == IF ~col1.isStatic THEN entity1 ELSE entity2
        staticEntity == IF ~col1.isStatic THEN entity2 ELSE entity1
        dynamicCol == GetComponentIn(em, "CollisionComponent", dynamicEntity)
        staticCol == GetComponentIn(em, "CollisionComponent", staticEntity)
        dynamicIsRight ==
            dynamicCol.currentBoundingBox.topLeft.x > staticCol.currentBoundingBox.topLeft.x
        flagged ==
            IF dynamicIsRight
            THEN SetCollided(SetCollided(em, dynamicEntity, "collidedLeft"),
                             staticEntity, "collidedRight")
            ELSE SetCollided(SetCollided(em, dynamicEntity, "collidedRight"),
                             staticEntity, "collidedLeft")
        separation == IF dynamicIsRight THEN overlap.horizontal ELSE -overlap.horizontal
        moved == AddToBoundingBox(AddToPosition(flagged, dynamicEntity, separation, 0),
                                  dynamicEntity, separation, 0)
        v == Velocity(em, dynamicEntity)
    IN  IF HasComponentIn(em, "LocationComponent", dynamicEntity)
        THEN IF HasComponentIn(em, "MovementComponent", dynamicEntity)
             THEN IF dynamicEntity # thePlayer
                  THEN IF (dynamicIsRight /\ v.x < 0) \/ (~dynamicIsRight /\ v.x > 0)
                       THEN SetVelocity(moved, dynamicEntity,
                                        TimesBounceDamping(-v.x), v.y)
                       ELSE moved
                  ELSE LET stopped == SetVelocity(moved, dynamicEntity,
                                                  PlayerAtWall(v).x, PlayerAtWall(v).y)
                       IN  IF ~dynamicCol.wasTouchingWallLast
                           THEN TriggerShake(stopped, theCamera, TRUE)
                           ELSE stopped
             ELSE moved
        ELSE flagged

\* ResolveCollision, a static body among the two, separated vertically.
ResolveStaticDynamicVertical(em, entity1, entity2, overlap, theCamera, thePlayer) ==
    LET col1 == GetComponentIn(em, "CollisionComponent", entity1)
        dynamicEntity == IF ~col1.isStatic THEN entity1 ELSE entity2
        staticEntity == IF ~col1.isStatic THEN entity2 ELSE entity1
        dynamicCol == GetComponentIn(em, "CollisionComponent", dynamicEntity)
        staticCol == GetComponentIn(em, "CollisionComponent", staticEntity)
        dynamicIsBelow ==
            dynamicCol.currentBoundingBox.topLeft.y > staticCol.currentBoundingBox.topLeft.y
        flagged ==
            IF dynamicIsBelow
            THEN SetCollided(SetCollided(em, dynamicEntity, "collidedTop"),
                             staticEntity, "collidedBottom")
            ELSE SetCollided(SetCollided(em, dynamicEntity, "collidedBottom"),
                             staticEntity, "collidedTop")
        separation == IF dynamicIsBelow THEN overlap.vertical ELSE -overlap.vertical
        moved == AddToBoundingBox(AddToPosition(flagged, dynamicEntity, 0, separation),
                                  dynamicEntity, 0, separation)
        v == Velocity(em, dynamicEntity)
    IN  IF HasComponentIn(em, "LocationComponent", dynamicEntity)
        THEN IF HasComponentIn(em, "MovementComponent", dynamicEntity)
             THEN IF dynamicEntity # thePlayer
                  THEN LET vy == IF \/ (dynamicIsBelow /\ v.y < 0)
                                    \/ (~dynamicIsBelow /\ v.y > 0)
                                 THEN TimesBounceDamping(-v.y)
                                 ELSE v.y
                           vx == IF ~dynamicIsBelow /\ Abs(vy) < 10 THEN 0 ELSE v.x
                       IN  SetVelocity(moved, dynamicEntity, vx, vy)
                  ELSE LET vy == IF ~dynamicIsBelow /\ v.y > 0
                                 THEN 0
                                 ELSE IF dynamicIsBelow /\ v.y < 0 THEN 0 ELSE v.y
                           stopped == SetVelocity(moved, dynamicEntity, v.x, vy)
                       IN  IF ~dynamicCol.wasStandingLast
                           THEN TriggerShake(stopped, theCamera, FALSE)
                           ELSE stopped
             ELSE moved
        ELSE flagged

\* A tie of the two penetrations resolved along X.
SeparateHorizontallyOnTie(overlap) == overlap.horizontal <= overlap.vertical

\* bool separateHorizontally = overlap.horizontal < overlap.vertical;
SeparateHorizontally(overlap) == overlap.horizontal < overlap.vertical

\* The assertion a ResolveCollision call fails, "" when it fails none: a
\* dynamic body without a LocationComponent, or a shake triggered on a
\* camera entity that is not valid or holds no CameraShake.
ResolveCollisionFailure(em, entity1, entity2, overlap, theCamera, thePlayer) ==
    LET col1 == GetComponentIn(em, "CollisionComponent", entity1)
        col2 == GetComponentIn(em, "CollisionComponent", entity2)
        dynamicEntity == IF ~col1.isStatic THEN entity1 ELSE entity2
        dynamicCol == GetComponentIn(em, "CollisionComponent", dynamicEntity)
        separateHorizontally == SeparateHorizontally(overlap)
        shakes ==
            /\ col1.isStatic \/ col2.isStatic
            /\ HasComponentIn(em, "LocationComponent", dynamicEntity)
            /\ HasComponentIn(em, "MovementComponent", dynamicEntity)
            /\ dynamicEntity = thePlayer
            /\ IF separateHorizontally
               THEN ~dynamicCol.wasTouchingWallLast
               ELSE ~dynamicCol.wasStandingLast
    IN  IF \/ ~col1.isStatic /\ ~HasComponentIn(em, "LocationComponent", entity1)
           \/ ~col2.isStatic /\ ~HasComponentIn(em, "LocationComponent", entity2)
        THEN "Dynamic entity must have LocationComponent!"
        ELSE IF shakes /\ ~ValidEntityIn(em, theCamera)
        THEN "GetComp"
        ELSE IF shakes /\ ~HasComponentIn(em, "CameraShake", theCamera)
        THEN "registry.valid(compID)"
        ELSE ""

\* void ResolveCollision(entity1, entity2, col1, col2, overlap, entityManager,
\* theCamera, thePlayer), past its assertions; col1 and col2 are the
\* collision components of entity1 and entity2.
ResolveCollision(em, entity1, entity2, overlap, theCamera, thePlayer) ==
    LET col1 == GetComponentIn(em, "CollisionComponent", entity1)
        col2 == GetComponentIn(em, "CollisionComponent", entity2)
        separateHorizontally == SeparateHorizontally(overlap)
    IN  IF ~col1.isStatic /\ ~col2.isStatic
        THEN IF \/ ~HasComponentIn(em, "LocationComponent", entity1)
                \/ ~HasComponentIn(em, "LocationComponent", entity2)
             THEN em
             ELSE IF separateHorizontally
                  THEN ResolveDynamicDynamicHorizontal(em, entity1, entity2, overlap,
                                                       thePlayer)
                  ELSE ResolveDynamicDynamicVertical(em, entity1, entity2, overlap)
        ELSE IF separateHorizontally
             THEN ResolveStaticDynamicHorizontal(em, entity1, entity2, overlap,
                                                 theCamera, thePlayer)
             ELSE ResolveStaticDynamicVertical(em, entity1, entity2, overlap,
                                               theCamera, thePlayer)

(***************************************************************************)
(* ResolveCollision called on two bodies.                                  *)
(***************************************************************************)
\* An entity's component table with the given components.
Components(has, location, movement, collision) ==
    [DefaultComponents EXCEPT
        !.has = has,
        !.LocationComponent = location,
        !.MovementComponent = movement,
        !.CollisionComponent = collision]

\* CameraShake(5.0f, 2.0f, 5.0f, 2.1f) and TimeComponent(0.2f) of the camera
\* entity (main.cpp:114-130); times are in milliseconds.
CameraComponents ==
    [DefaultComponents EXCEPT
        !.has = {"CameraComponent", "CameraFollower", "TimeComponent", "CameraShake"},
        !.TimeComponent = [totalDuration |-> 200, timeRemaining |-> 200,
                           isRunning |-> TRUE, restart |-> FALSE]]

\* A tile of the sky layer: a location and a sprite, no collision box.
SkyTileComponents ==
    [DefaultComponents EXCEPT !.has = {"LocationComponent", "SpriteComponent"}]

\* The velocities a body is given.
TestVelocities ==
    { Point2D(vx, vy) : vx \in {-100, 0, 100}, vy \in {-100, 0, 100} }
        \cup {Point2D(100, 200)}

\* Where the second body's box lies relative to the first one's: from
\* touching on one side to touching on the other, with overlaps of 4, 10
\* and 32 between two square boxes.
TestOffsets == {-32, -28, -22, 0, 22, 28, 32}

\* The extents of a body's box: a square one, and one of a quarter of the
\* width and twice the height.
TestSizes == {[width |-> 32, height |-> 32], [width |-> 8, height |-> 64]}

\* A body with a box of the given size at (x, y): static, or dynamic with
\* or without a location and a velocity; the player also holds an
\* InputComponent.
TestBodies(x, y, extent, isPlayer) ==
    { Components(has \cup {"CollisionComponent"} \cup
                     (IF isPlayer THEN {"InputComponent"} ELSE {}),
                 [position |-> Point2D(x, y)],
                 [velocity |-> v, maxSpeed |-> 300],
                 [CollisionComponent(Rect(0, 0, extent.width, extent.height), isStatic) EXCEPT
                     !.currentBoundingBox = Rect(x, y, extent.width, extent.height),
                     !.boundingBoxInitialized = TRUE,
                     !.wasStandingLast = standing,
                     !.wasTouchingWallLast = touching]) :
          has \in { h \in SUBSET {"LocationComponent", "MovementComponent"} :
                        "LocationComponent" \in h \/ "MovementComponent" \notin h },
          v \in TestVelocities, isStatic \in BOOLEAN,
          standing \in BOOLEAN, touching \in BOOLEAN }

\* Nothing has run: no frame begun, no system run, no reference misused, no
\* entity removed, no pair gone through or resolved by a collision pass, and
\* no collision pass ended that would have left contact flags; no star
\* collected and no PlaySound("sparkle") called since the run began.
NoTrace ==
    [ran |-> <<>>, mutatedWhileBorrowed |-> {}, removed |-> {}, processed |-> {},
     resolved |-> {}, flagsAtEnd |-> <<>>, collected |-> 0, sparkle |-> 0]

\* ECSEngine::Run has not been called.
EngineIdle ==
    /\ engine = [isOpen |-> FALSE, deltaTime |-> 0, frames |-> 0]
    /\ trace = NoTrace

\* The bodies a call is made on: a static body is not the player, holds a
\* location and no velocity; a body without a MovementComponent has the
\* velocity of MovementComponent(); the contact memory is kept by the
\* player only.
WellFormedBody(c, isPlayer) ==
    /\ c.CollisionComponent.isStatic =>
           /\ ~isPlayer
           /\ c.has = {"CollisionComponent", "LocationComponent"}
    /\ "MovementComponent" \notin c.has => c.MovementComponent.velocity = Point2D(0, 0)
    /\ ~isPlayer => /\ c.CollisionComponent.wasStandingLast
                    /\ ~c.CollisionComponent.wasTouchingWallLast

\* The locals of CollisionSystem for a call on entities[i] and entities[j];
\* overlap is the Overlap last computed.
Pass(entities, i, j, theCamera, thePlayer) ==
    [entities |-> entities, i |-> i, j |-> j,
     theCamera |-> theCamera, thePlayer |-> thePlayer,
     overlap |-> [horizontal |-> 0, vertical |-> 0]]

\* Entities 1 and 2 are the two bodies, not both static, their boxes
\* overlapping or touching; the first one's box is the square one.  Entity
\* 0 is a sky tile and entity 3 the camera.
ResolveInit ==
    /\ \E thePlayer \in 0 .. 2, dx \in TestOffsets, dy \in TestOffsets, extent \in TestSizes :
        \E c1 \in TestBodies(0, 0, [width |-> 32, height |-> 32], thePlayer = 1),
           c2 \in TestBodies(dx, dy, extent, thePlayer = 2) :
           /\ WellFormedBody(c1, thePlayer = 1)
           /\ WellFormedBody(c2, thePlayer = 2)
           /\ ~(c1.CollisionComponent.isStatic /\ c2.CollisionComponent.isStatic)
           /\ LET overlap == CalculateOverlap(c1.CollisionComponent.currentBoundingBox,
                                              c2.CollisionComponent.currentBoundingBox)
              IN  overlap.horizontal >= 0 /\ overlap.vertical >= 0
           /\ entityManager =
                  [mEntities |-> <<Entity(0, "tile"), Entity(1, "body"),
                                   Entity(2, "body"), Entity(3, "main_camera")>>,
                   mValid |-> <<TRUE, TRUE, TRUE, TRUE>>,
                   mFreeList |-> <<>>,
                   comps |-> <<SkyTileComponents, c1, c2, CameraComponents>>]
           /\ pass = Pass(<<1, 2>>, 0, 1, 3, thePlayer)
    /\ pc = "ResolveCollision"
    /\ EngineIdle

\* ResolveCollision(entity1, entity2, collision1, collision2, overlap,
\* entityManager, theCamera, thePlayer) with the overlap of the two boxes.
ResolveCall ==
    /\ Running
    /\ pc = "ResolveCollision"
    /\ LET entity1 == pass.entities[pass.i + 1]
           entity2 == pass.entities[pass.j + 1]
           overlap == CalculateOverlap(
               GetComponentIn(entityManager, "CollisionComponent", entity1).currentBoundingBox,
               GetComponentIn(entityManager, "CollisionComponent", entity2).currentBoundingBox)
           failure == ResolveCollisionFailure(entityManager, entity1, entity2, overlap,
                                              pass.theCamera, pass.thePlayer)
       IN  /\ IF failure # ""
              THEN /\ aborted' = failure
                   /\ UNCHANGED entityManager
              ELSE /\ entityManager' = ResolveCollision(entityManager, entity1,
                                                        entity2, overlap,
                                                        pass.theCamera,
                                                        pass.thePlayer)
                   /\ UNCHANGED aborted
           /\ pass' = [pass EXCEPT !.overlap = overlap]
    /\ pc' = "done"
    /\ UNCHANGED <<engine, trace>>
    /\ UNCHANGED exceptGame

\* The engine is not running.
GameIdle ==
    /\ entityManager = [mEntities |-> <<>>, mValid |-> <<>>, mFreeList |-> <<>>,
                        comps |-> <<>>]
    /\ pass = Pass(<<>>, 0, 0, 0, 0)
    /\ pc = "idle"
    /\ EngineIdle

ResolveNext == ResolveCall

(***************************************************************************)
(* ECSEngine::Run on a small world.  Times are in milliseconds, and a rate *)
(* per second times a deltaTime is taken with OverTime; the frames planned *)
(* last 0, 100 or 1000 milliseconds.  What is sent to the window and to    *)
(* the sound card is not part of the state; the history counts the pickup  *)
(* sounds asked for.  Where a float would hold a                           *)
(* fraction (a third bounce, an odd overlap halved, a speed of 98 over a   *)
(* tenth of a second) the value is cut to a whole number.                  *)
(***************************************************************************)
\* The frames a run is followed for.
MaxFrames == 3

\* The stars the spawner may make (spawnComp.maxSpawns, main.cpp:101).
MaxSpawns == 2

GRAVITY == 980
JUMP_VELOCITY == -400
WALL_JUMP_VELOCITY_Y == -350
WALL_JUMP_VELOCITY_X == 250
FAST_FALL_SPEED == 200
PLAYER_ACCELERATION == 1200
PLAYER_MAX_SPEED == 300

\* rate * deltaTime, deltaTime in milliseconds
OverTime(rate, deltaTime) == (rate * deltaTime) \div 1000

\* The ids the range-for over the entity manager runs a loop body past
\* `if (!entity.id) continue;' for, in the order of mEntities.
IteratedIds(em) ==
    { em.mEntities[k].id : k \in 1 .. Len(em.mEntities) } \ {0}

\* entityManager.CreateEntity(name): the manager after the call and the id
\* it returns.
CreateEntityIn(em, name) ==
    IF em.mFreeList # <<>>
    THEN LET ret == Back(em.mFreeList)
         IN  [ret |-> ret,
              em |-> [em EXCEPT !.mFreeList = PopBack(@),
                                !.mValid[ret + 1] = TRUE,
                                !.mEntities[ret + 1] = Entity(ret, name)]]
    ELSE LET ret == Len(em.comps)
         IN  [ret |-> ret,
              em |-> [em EXCEPT !.mValid = Append(@, TRUE),
                                !.comps = Append(@, DefaultComponents),
                                !.mEntities = Append(@, Entity(ret, name))]]

\* entityManager.RemoveEntity(entity)
RemoveEntityIn(em, entity) ==
    IF ~ValidEntityIn(em, entity)
    THEN em
    ELSE [em EXCEPT !.comps[entity + 1] = DefaultComponents,
                    !.mEntities[entity + 1] = Entity(0, ""),
                    !.mValid[entity + 1] = FALSE,
                    !.mFreeList = Append(@, entity)]

\* entityManager.AddComponent<T>(entity, component), past its assertions.
AddComponentIn(em, T, entity, component) ==
    [em EXCEPT !.comps[entity + 1][T] = component,
               !.comps[entity + 1].has = @ \cup {T}]

\* The assertion GetComponent<T>(entity) fails, "" when it fails none.
GetComponentFailureIn(em, T, entity) ==
    IF ~ValidEntityIn(em, entity) THEN "GetComp"
    ELSE IF ~HasComponentIn(em, T, entity) THEN "registry.valid(compID)"
    ELSE ""

\* The events one call of ProcessEvents polls: none, the window closed, or
\* one of the keys the systems read pressed or released.
Scancodes == {"A", "D", "W", "S"}
PolledEvents ==
    {<<>>, <<[type |-> "Closed", scancode |-> ""]>>}
        \cup { <<[type |-> t, scancode |-> k]>> :
                   t \in {"KeyPressed", "KeyReleased"}, k \in Scancodes }

\* input.keydown after the events.
KeydownAfter(keydown, events) ==
    IF events = <<>> THEN keydown
    ELSE IF events[1].type = "KeyPressed" THEN keydown \cup {events[1].scancode}
    ELSE IF events[1].type = "KeyReleased" THEN keydown \ {events[1].scancode}
    ELSE keydown

\* ProcessEvents on the entity manager: every entity with an InputComponent
\* records the keys.
ProcessEventsOn(em, events) ==
    [em EXCEPT !.comps =
        [k \in 1 .. Len(em.comps) |->
            IF (k - 1) \in IteratedIds(em) /\ HasComponentIn(em, "InputComponent", k - 1)
            THEN [em.comps[k] EXCEPT !.InputComponent.keydown = KeydownAfter(@, events)]
            ELSE em.comps[k]]]

\* A CollisionSystemUpdate that clears the contact flags as well, before
\* GravitySystem and InputSystem have read them.
CollisionSystemUpdateClearing(em) ==
    [em EXCEPT !.comps =
        [k \in 1 .. Len(em.comps) |->
            LET collision == em.comps[k].CollisionComponent
            IN  IF /\ (k - 1) \in IteratedIds(em)
                   /\ HasComponentIn(em, "CollisionComponent", k - 1)
                THEN [em.comps[k] EXCEPT
                         !.CollisionComponent.previousBoundingBox =
                             IF ~collision.isStatic \/ ~collision.boundingBoxInitialized
                             THEN collision.currentBoundingBox
                             ELSE @,
                         !.CollisionComponent.collidedTop = FALSE,
                         !.CollisionComponent.collidedBottom = FALSE,
                         !.CollisionComponent.collidedLeft = FALSE,
                         !.CollisionComponent.collidedRight = FALSE]
                ELSE em.comps[k]]]

\* CollisionSystemUpdate: previousBoundingBox = currentBoundingBox for every
\* body that is dynamic or not yet initialised.
CollisionSystemUpdateOn(em) ==
    [em EXCEPT !.comps =
        [k \in 1 .. Len(em.comps) |->
            LET collision == em.comps[k].CollisionComponent
            IN  IF /\ (k - 1) \in IteratedIds(em)
                   /\ HasComponentIn(em, "CollisionComponent", k - 1)
                   /\ ~collision.isStatic \/ ~collision.boundingBoxInitialized
                THEN [em.comps[k] EXCEPT !.CollisionComponent.previousBoundingBox =
                                            collision.currentBoundingBox]
                ELSE em.comps[k]]]

\* if (isFalling) { collision.wasStandingLast = false; }, inside
\* if (HasComponent<CollisionComponent>(entity.id)): InputSystem's loop body
\* assigns the contact memory of an entity with components c.
ClearsWasStandingLast(c) ==
    "CollisionComponent" \in c.has /\ c.MovementComponent.velocity.y > 0

\* The body of InputSystem's loop on the components c of one entity.
InputSystemEntity(c, deltaTime) ==
    LET keydown == c.InputComponent.keydown
        movement == c.MovementComponent
        acceleration == c.AccelerationComponent.acceleration
        hasCollision == "CollisionComponent" \in c.has
        collision == c.CollisionComponent
        isFalling == movement.velocity.y > 0
        isGrounded == hasCollision /\ collision.collidedBottom
        againstLeftWall == hasCollision /\ collision.collidedLeft
        againstRightWall == hasCollision /\ collision.collidedRight
        isWallSliding ==
            isFalling /\ \/ againstLeftWall /\ "A" \in keydown
                         \/ againstRightWall /\ "D" \in keydown
        horizontalInput ==
            (IF "D" \in keydown THEN 1 ELSE 0) - (IF "A" \in keydown THEN 1 ELSE 0)
        accel == IF isGrounded THEN acceleration.x ELSE (acceleration.x * 8) \div 10
        targetVelocity == horizontalInput * movement.maxSpeed
        vx == movement.velocity.x
        accelerated ==
            IF Abs(targetVelocity - vx) < OverTime(accel, deltaTime)
            THEN targetVelocity
            ELSE vx + OverTime(IF targetVelocity > vx THEN accel ELSE -accel, deltaTime)
        clamped ==
            IF Abs(accelerated) > movement.maxSpeed
            THEN (IF accelerated > 0 THEN 1 ELSE -1) * movement.maxSpeed
            ELSE accelerated
        decel == IF isGrounded THEN (acceleration.x * 3) \div 2 ELSE acceleration.x \div 2
        decelerated ==
            IF Abs(vx) < OverTime(decel, deltaTime)
            THEN 0
            ELSE vx - OverTime(IF vx > 0 THEN decel ELSE -decel, deltaTime)
        steered == IF horizontalInput # 0 THEN clamped ELSE decelerated
        jumpPressed == "W" \in keydown \/ "Space" \in keydown
        jumped ==
            IF jumpPressed /\ isGrounded
            THEN Point2D(steered, JUMP_VELOCITY)
            ELSE IF jumpPressed /\ isWallSliding
            THEN Point2D(IF againstLeftWall THEN WALL_JUMP_VELOCITY_X
                         ELSE IF againstRightWall THEN -WALL_JUMP_VELOCITY_X
                         ELSE steered,
                         WALL_JUMP_VELOCITY_Y)
            ELSE Point2D(steered, movement.velocity.y)
        velocity ==
            IF "S" \in keydown
            THEN Point2D(jumped.x, jumped.y + FAST_FALL_SPEED)
            ELSE jumped
    IN  [c EXCEPT !.MovementComponent.velocity = velocity,
                  !.CollisionComponent.wasStandingLast =
                      IF ClearsWasStandingLast(c) THEN FALSE ELSE @]

\* The entities InputSystem runs its loop body on.
InputSystemVisits(em, entity) ==
    /\ entity \in IteratedIds(em)
    /\ HasComponentIn(em, "InputComponent", entity)
    /\ HasComponentIn(em, "MovementComponent", entity)

\* The assertion InputSystem fails, "" when it fails none: it reads the
\* AccelerationComponent without asking for it.
InputSystemFailure(em) ==
    IF \E entity \in IteratedIds(em) :
           /\ InputSystemVisits(em, entity)
           /\ ~HasComponentIn(em, "AccelerationComponent", entity)
    THEN "registry.valid(compID)"
    ELSE ""

\* InputSystem, past its assertions.
InputSystemOn(em, deltaTime) ==
    [em EXCEPT !.comps =
        [k \in 1 .. Len(em.comps) |->
            IF InputSystemVisits(em, k - 1)
            THEN InputSystemEntity(em.comps[k], deltaTime)
            ELSE em.comps[k]]]

\* A GravitySystem body that pulls a grounded entity down as well.
GravitySystemEntityAlways(c, deltaTime) ==
    LET movement == c.MovementComponent
        hasCollision == "CollisionComponent" \in c.has
        collision == c.CollisionComponent
        keydown == c.InputComponent.keydown
        isWallSliding ==
            /\ hasCollision
            /\ movement.velocity.y > 0
            /\ "InputComponent" \in c.has
            /\ \/ collision.collidedLeft /\ "A" \in keydown
               \/ collision.collidedRight /\ "D" \in keydown
        gravity == IF isWallSliding THEN (GRAVITY * 3) \div 10 ELSE GRAVITY
    IN  [c EXCEPT !.MovementComponent.velocity.y = @ + OverTime(gravity, deltaTime)]

\* The body of GravitySystem's loop on the components c of one entity.
GravitySystemEntity(c, deltaTime) ==
    LET movement == c.MovementComponent
        hasCollision == "CollisionComponent" \in c.has
        collision == c.CollisionComponent
        keydown == c.InputComponent.keydown
        isGrounded == hasCollision /\ collision.collidedBottom
        isWallSliding ==
            /\ hasCollision
            /\ ~isGrounded
            /\ movement.velocity.y > 0
            /\ "InputComponent" \in c.has
            /\ \/ collision.collidedLeft /\ "A" \in keydown
               \/ collision.collidedRight /\ "D" \in keydown
        gravity == IF isWallSliding THEN (GRAVITY * 3) \div 10 ELSE GRAVITY
    IN  IF isGrounded
        THEN c
        ELSE [c EXCEPT !.MovementComponent.velocity.y = @ + OverTime(gravity, deltaTime)]

\* GravitySystem
GravitySystemOn(em, deltaTime) ==
    [em EXCEPT !.comps =
        [k \in 1 .. Len(em.comps) |->
            IF /\ (k - 1) \in IteratedIds(em)
               /\ HasComponentIn(em, "MovementComponent", k - 1)
            THEN GravitySystemEntity(em.comps[k], deltaTime)
            ELSE em.comps[k]]]

\* A MovementSystem that leaves a body alone while it stands on something.
MovementSystemSparingGrounded(em, deltaTime) ==
    [em EXCEPT !.comps =
        [k \in 1 .. Len(em.comps) |->
            LET velocity == em.comps[k].MovementComponent.velocity
                position == em.comps[k].LocationComponent.position
            IN  IF /\ (k - 1) \in IteratedIds(em)
                   /\ HasComponentIn(em, "LocationComponent", k - 1)
                   /\ HasComponentIn(em, "MovementComponent", k - 1)
                   /\ ~em.comps[k].CollisionComponent.collidedBottom
                THEN [em.comps[k] EXCEPT !.LocationComponent.position =
                         Point2D(position.x + OverTime(velocity.x, deltaTime),
                                 position.y + OverTime(velocity.y, deltaTime))]
                ELSE em.comps[k]]]

\* MovementSystem: location.position += movement.velocity * deltaTime
MovementSystemOn(em, deltaTime) ==
    [em EXCEPT !.comps =
        [k \in 1 .. Len(em.comps) |->
            LET velocity == em.comps[k].MovementComponent.velocity
                position == em.comps[k].LocationComponent.position
            IN  IF /\ (k - 1) \in IteratedIds(em)
                   /\ HasComponentIn(em, "LocationComponent", k - 1)
                   /\ HasComponentIn(em, "MovementComponent", k - 1)
                THEN [em.comps[k] EXCEPT !.LocationComponent.position =
                         Point2D(position.x + OverTime(velocity.x, deltaTime),
                                 position.y + OverTime(velocity.y, deltaTime))]
                ELSE em.comps[k]]]

\* The body of TimeSystem's loop on one timer.
TimeSystemTimer(timer, deltaTime) ==
    LET timeRemaining == timer.timeRemaining - deltaTime
    IN  IF ~timer.isRunning THEN timer
        ELSE IF timeRemaining > 0 THEN [timer EXCEPT !.timeRemaining = timeRemaining]
        ELSE IF timer.restart THEN [timer EXCEPT !.timeRemaining = timer.totalDuration]
        ELSE [timer EXCEPT !.isRunning = FALSE, !.timeRemaining = timer.totalDuration]

\* TimeSystem
TimeSystemOn(em, deltaTime) ==
    [em EXCEPT !.comps =
        [k \in 1 .. Len(em.comps) |->
            IF /\ (k - 1) \in IteratedIds(em)
               /\ HasComponentIn(em, "TimeComponent", k - 1)
            THEN [em.comps[k] EXCEPT !.TimeComponent = TimeSystemTimer(@, deltaTime)]
            ELSE em.comps[k]]]

\* The first entity the range-for meets that holds a T, 0 when none does.
FirstWith(em, T) ==
    LET holders == { e \in IteratedIds(em) : HasComponentIn(em, T, e) }
    IN  IF holders = {} THEN 0 ELSE CHOOSE e \in holders : \A o \in holders : e <= o

\* The entity ScoreSystem updates the display of: the first one whose
\* ScoreComponent has display entities, 0 when there is none.
ScoreSystemEntity(em) ==
    LET holders == { e \in IteratedIds(em) :
                        /\ HasComponentIn(em, "ScoreComponent", e)
                        /\ GetComponentIn(em, "ScoreComponent", e).displayEntities # <<>> }
    IN  IF holders = {} THEN 0 ELSE CHOOSE e \in holders : \A o \in holders : e <= o

\* digits[i] of ScoreSystem, i counted from 0: the decimal digits of
\* min(score, 999), the last numDigits of them, most significant first.
RECURSIVE Pow10(_)
Pow10(n) == IF n = 0 THEN 1 ELSE 10 * Pow10(n - 1)
ScoreDigit(score, numDigits, i) ==
    (Min(score, 999) \div Pow10(numDigits - 1 - i)) % 10

\* The assertion ScoreSystem fails, "" when it fails none.
ScoreSystemFailure(em) ==
    LET scoreComp == GetComponentIn(em, "ScoreComponent", ScoreSystemEntity(em))
    IN  IF /\ ScoreSystemEntity(em) # 0
           /\ \E i \in 1 .. Len(scoreComp.displayEntities) :
                 /\ ValidEntityIn(em, scoreComp.displayEntities[i])
                 /\ ~HasComponentIn(em, "SpriteComponent", scoreComp.displayEntities[i])
        THEN "Score display entity must have SpriteComponent!"
        ELSE ""

\* ScoreSystem, past its assertions: each valid display entity shows its
\* digit's sprite.
ScoreSystemOn(em) ==
    LET scoreComp == GetComponentIn(em, "ScoreComponent", ScoreSystemEntity(em))
        numDigits == Len(scoreComp.displayEntities)
        shown(e) == { i \in 1 .. numDigits : scoreComp.displayEntities[i] = e }
        last(e) == CHOOSE i \in shown(e) : \A o \in shown(e) : o <= i
    IN  IF ScoreSystemEntity(em) = 0
        THEN em
        ELSE [em EXCEPT !.comps =
                [k \in 1 .. Len(em.comps) |->
                    IF ValidEntityIn(em, k - 1) /\ shown(k - 1) # {}
                    THEN [em.comps[k] EXCEPT !.SpriteComponent.spriteID =
                             scoreComp.digitSprites[
                                 ScoreDigit(scoreComp.score, numDigits, last(k - 1) - 1) + 1]]
                    ELSE em.comps[k]]]

\* The assertion CameraSystem fails, "" when it fails none.
CameraSystemFailure(em) ==
    LET cameraEntity == FirstWith(em, "CameraComponent")
    IN  IF /\ cameraEntity # 0
           /\ HasComponentIn(em, "CameraShake", cameraEntity)
           /\ ~HasComponentIn(em, "TimeComponent", cameraEntity)
        THEN "Entity with CameraShake must have TimeComponent for timing!"
        ELSE ""

\* A CameraSystem that starts the timer and leaves the trigger set.
CameraSystemKeepingTrigger(em, deltaTime) ==
    LET cameraEntity == FirstWith(em, "CameraComponent")
        shake == GetComponentIn(em, "CameraShake", cameraEntity)
        timer == GetComponentIn(em, "TimeComponent", cameraEntity)
    IN  IF cameraEntity = 0 \/ ~HasComponentIn(em, "CameraShake", cameraEntity)
             \/ ~shake.isShaking
        THEN em
        ELSE SetComponentIn(em, "TimeComponent", cameraEntity,
                 [timer EXCEPT !.isRunning = TRUE,
                               !.timeRemaining = timer.totalDuration])

\* CameraSystem, past its assertions: a shake asked for starts the timer and
\* is taken; the shake's clock runs while the timer does.  The position of
\* the view, which follows from the window's size, is not modelled.
CameraSystemOn(em, deltaTime) ==
    LET cameraEntity == FirstWith(em, "CameraComponent")
        shake == GetComponentIn(em, "CameraShake", cameraEntity)
        timer == GetComponentIn(em, "TimeComponent", cameraEntity)
        started ==
            IF shake.isShaking
            THEN [timer EXCEPT !.isRunning = TRUE, !.timeRemaining = timer.totalDuration]
            ELSE timer
        elapsedTime == IF shake.isShaking THEN 0 ELSE shake.elapsedTime
    IN  IF cameraEntity = 0 \/ ~HasComponentIn(em, "CameraShake", cameraEntity)
        THEN em
        ELSE SetComponentIn(
                 SetComponentIn(em, "TimeComponent", cameraEntity, started),
                 "CameraShake", cameraEntity,
                 [shake EXCEPT
                     !.isShaking = FALSE,
                     !.elapsedTime = IF started.isRunning /\ started.timeRemaining > 0
                                     THEN elapsedTime + deltaTime
                                     ELSE 0])

\* The assertion SpriteSystem fails, "" when it fails none.  SpriteSystem
\* draws and changes no component.
SpriteSystemFailure(em) ==
    IF \E e \in IteratedIds(em) :
           /\ HasComponentIn(em, "SpriteComponent", e)
           /\ GetComponentIn(em, "SpriteComponent", e).isAlive
           /\ GetComponentIn(em, "SpriteComponent", e).worldSpace
           /\ ~HasComponentIn(em, "LocationComponent", e)
    THEN "World-space sprite must have LocationComponent!"
    ELSE ""

\* A spawn asked for whenever the time has run out, whatever the count.
SpawnDueUncapped(spawn, deltaTime) ==
    spawn.timeToNextSpawn - deltaTime <= 0

\* The spawner entity asks for a spawn: its time has run out and its count
\* is below maxSpawns.
SpawnDue(spawn, deltaTime) ==
    /\ spawn.timeToNextSpawn - deltaTime <= 0
    /\ ~(spawn.maxSpawns # -1 /\ spawn.spawnCount >= spawn.maxSpawns)

\* The body of SpawnSystem's loop on a spawner, past its assertion: the
\* time runs, and when a spawn is due a new entity of the spawner's
\* entityType gets the spawner's position, the velocity drawn, a sprite and
\* a dynamic 32 x 32 box that stands on the position.
SpawnSystemEntity(em, entity, deltaTime, randomVelocity) ==
    LET spawn == GetComponentIn(em, "SpawnComponent", entity)
        spawnerLoc == GetComponentIn(em, "LocationComponent", entity)
        created == CreateEntityIn(em, spawn.entityType)
        newEntity == created.ret
        located == AddComponentIn(created.em, "LocationComponent", newEntity,
                                  [position |-> spawnerLoc.position])
        moving == AddComponentIn(located, "MovementComponent", newEntity,
                                 [velocity |-> randomVelocity, maxSpeed |-> 50])
        drawn == AddComponentIn(moving, "SpriteComponent", newEntity,
                                [spriteID |-> spawn.spriteID, worldSpace |-> TRUE,
                                 isAlive |-> TRUE])
        boxed == AddComponentIn(drawn, "CollisionComponent", newEntity,
                                CollisionComponent(Rect(0, -32, 32, 32), FALSE))
    IN  IF SpawnDue(spawn, deltaTime)
        THEN SetComponentIn(boxed, "SpawnComponent", entity,
                 [spawn EXCEPT !.timeToNextSpawn = spawn.spawnInterval,
                               !.spawnCount = @ + 1])
        ELSE SetComponentIn(em, "SpawnComponent", entity,
                 [spawn EXCEPT !.timeToNextSpawn = @ - deltaTime])

\* The entries k .. last of mEntities as SpawnSystem's loop goes through
\* them.
RECURSIVE SpawnSystemFrom(_, _, _, _, _)
SpawnSystemFrom(em, k, last, deltaTime, randomVelocity) ==
    IF k > last
    THEN em
    ELSE IF /\ em.mEntities[k].id # 0
            /\ HasComponentIn(em, "SpawnComponent", em.mEntities[k].id)
    THEN SpawnSystemFrom(
             SpawnSystemEntity(em, em.mEntities[k].id, deltaTime, randomVelocity),
             k + 1, last, deltaTime, randomVelocity)
    ELSE SpawnSystemFrom(em, k + 1, last, deltaTime, randomVelocity)

\* SpawnSystem, past its assertions; the loop ends where mEntities ended
\* when it began.
SpawnSystemOn(em, deltaTime, randomVelocity) ==
    SpawnSystemFrom(em, 1, Len(em.mEntities), deltaTime, randomVelocity)

\* The spawners that spawn in a call of SpawnSystem.
Spawning(em, deltaTime) ==
    { e \in IteratedIds(em) :
        /\ HasComponentIn(em, "SpawnComponent", e)
        /\ SpawnDue(GetComponentIn(em, "SpawnComponent", e), deltaTime) }

\* The assertion SpawnSystem fails, "" when it fails none.
SpawnSystemFailure(em, deltaTime) ==
    IF \E e \in Spawning(em, deltaTime) : ~HasComponentIn(em, "LocationComponent", e)
    THEN "Spawner entity must have LocationComponent!"
    ELSE ""

\* The storages SpawnSystem holds a reference into while it gives the new
\* entity its components (spawn, spawnerLoc), and the storages it stores to
\* in that time.
SpawnSystemBorrows == {"SpawnComponent", "LocationComponent"}
SpawnSystemStores ==
    {"LocationComponent", "MovementComponent", "SpriteComponent", "CollisionComponent"}

\* A first loop body that leaves the contact flags of the frame before.
CollisionSystemEntityKeeping(c) ==
    LET collision == c.CollisionComponent
        position == c.LocationComponent.position
    IN  [c EXCEPT !.CollisionComponent =
            IF /\ "LocationComponent" \in c.has
               /\ ~collision.isStatic \/ ~collision.boundingBoxInitialized
            THEN [collision EXCEPT
                     !.currentBoundingBox.topLeft =
                         Point2D(position.x + collision.boundingBoxOffset.x,
                                 position.y + collision.boundingBoxOffset.y),
                     !.boundingBoxInitialized = TRUE]
            ELSE collision]

\* CollisionSystem's first loop on one body: the flags of the last frame
\* are cleared and the box is put where the location is, unless the body
\* is static and its box was put there before.
CollisionSystemEntity(c) ==
    LET cleared == [c.CollisionComponent EXCEPT
                       !.collidedTop = FALSE, !.collidedBottom = FALSE,
                       !.collidedLeft = FALSE, !.collidedRight = FALSE]
        position == c.LocationComponent.position
    IN  [c EXCEPT !.CollisionComponent =
            IF /\ "LocationComponent" \in c.has
               /\ ~cleared.isStatic \/ ~cleared.boundingBoxInitialized
            THEN [cleared EXCEPT
                     !.currentBoundingBox.topLeft =
                         Point2D(position.x + cleared.boundingBoxOffset.x,
                                 position.y + cleared.boundingBoxOffset.y),
                     !.boundingBoxInitialized = TRUE]
            ELSE cleared]

\* The assertion CollisionSystem's first loop fails, "" when it fails none.
CollisionSystemFailure(em) ==
    IF \E e \in IteratedIds(em) :
           /\ HasComponentIn(em, "CollisionComponent", e)
           /\ ~HasComponentIn(em, "LocationComponent", e)
    THEN "Entity with CollisionComponent must have LocationComponent!"
    ELSE ""

\* The ids of a set in increasing order, as the loop over mEntities meets
\* them.
RECURSIVE InOrder(_)
InOrder(ids) ==
    IF ids = {}
    THEN <<>>
    ELSE LET first == CHOOSE e \in ids : \A o \in ids : e <= o
         IN  <<first>> \o InOrder(ids \ {first})

\* The last of the ids the loop meets, 0 when there is none.
LastOf(ids) ==
    IF ids = {} THEN 0 ELSE CHOOSE e \in ids : \A o \in ids : o <= e

\* CollisionSystem's first loop, past its assertions.
CollisionSystemCollectOn(em) ==
    [em EXCEPT !.comps =
        [k \in 1 .. Len(em.comps) |->
            IF /\ (k - 1) \in IteratedIds(em)
               /\ HasComponentIn(em, "CollisionComponent", k - 1)
            THEN CollisionSystemEntity(em.comps[k])
            ELSE em.comps[k]]]

\* The locals CollisionSystem enters its pair loop with.
CollisionSystemLocals(em) ==
    Pass(InOrder({ e \in IteratedIds(em) : HasComponentIn(em, "CollisionComponent", e) }),
         0, 1,
         LastOf({ e \in IteratedIds(em) : GetEntityName(em, e) = "main_camera" }),
         LastOf({ e \in IteratedIds(em) : HasComponentIn(em, "InputComponent", e) }))

\* The pair loop's validity test left out.
AlwaysValid(em, entity1, entity2) == TRUE

\* The pair loop goes on with the body for entity1 and entity2:
\* !(!ValidEntity(entity1) || !ValidEntity(entity2))
BothValid(em, entity1, entity2) ==
    ValidEntityIn(em, entity1) /\ ValidEntityIn(em, entity2)

\* No entity taken for a star.
NoStar(em, entity1, entity2, thePlayer) == 0

\* EntityID star of the pair loop: the member named "star" when the other
\* member is thePlayer, 0 otherwise.
StarOf(em, entity1, entity2, thePlayer) ==
    IF entity1 = thePlayer /\ GetEntityName(em, entity2) = "star" THEN entity2
    ELSE IF entity2 = thePlayer /\ GetEntityName(em, entity1) = "star" THEN entity1
    ELSE 0

\* An overlap test that two static bodies are not kept from.
CollisionDetectedBetweenStatics(em, entity1, entity2) ==
    LET collision1 == GetComponentIn(em, "CollisionComponent", entity1)
        collision2 == GetComponentIn(em, "CollisionComponent", entity2)
    IN  RectIntersect(collision1.currentBoundingBox, collision2.currentBoundingBox)

\* The pair loop's body reaches the star test: the boxes of the pair, not
\* both static, intersect.
CollisionDetected(em, entity1, entity2) ==
    LET collision1 == GetComponentIn(em, "CollisionComponent", entity1)
        collision2 == GetComponentIn(em, "CollisionComponent", entity2)
    IN  /\ ~(collision1.isStatic /\ collision2.isStatic)
        /\ RectIntersect(collision1.currentBoundingBox, collision2.currentBoundingBox)

\* A pickup branch that scores and leaves the star in the world.
CollectStarLeavingIt(em, star, thePlayer) ==
    LET score == GetComponentIn(em, "ScoreComponent", thePlayer)
    IN  SetComponentIn(em, "ScoreComponent", thePlayer,
                       [score EXCEPT !.score = @ + 10])

\* The pair loop's pickup branch, past its assertions.
CollectStar(em, star, thePlayer) ==
    LET score == GetComponentIn(em, "ScoreComponent", thePlayer)
        sprite == GetComponentIn(em, "SpriteComponent", star)
        scored == SetComponentIn(em, "ScoreComponent", thePlayer,
                                 [score EXCEPT !.score = @ + 10])
        dead == SetComponentIn(scored, "SpriteComponent", star,
                               [sprite EXCEPT !.isAlive = FALSE])
    IN  RemoveEntityIn(dead, star)

\* The storages the pickup branch holds references into when it calls
\* RemoveEntity: collision1, collision2, score, sprite.
CollectStarBorrows == {"CollisionComponent", "ScoreComponent", "SpriteComponent"}

\* The assertion one pass of the pair loop's body fails, "" when it fails
\* none.
CollisionPairFailure(em, entity1, entity2, theCamera, thePlayer) ==
    LET star == StarOf(em, entity1, entity2, thePlayer)
        getCollision1 == GetComponentFailureIn(em, "CollisionComponent", entity1)
        getCollision2 == GetComponentFailureIn(em, "CollisionComponent", entity2)
    IN  IF getCollision1 # "" THEN getCollision1
        ELSE IF getCollision2 # "" THEN getCollision2
        ELSE IF ~CollisionDetected(em, entity1, entity2) THEN ""
        ELSE IF star # 0
        THEN IF GetComponentFailureIn(em, "ScoreComponent", thePlayer) # ""
             THEN GetComponentFailureIn(em, "ScoreComponent", thePlayer)
             ELSE GetComponentFailureIn(em, "SpriteComponent", star)
        ELSE ResolveCollisionFailure(
                 em, entity1, entity2,
                 CalculateOverlap(
                     GetComponentIn(em, "CollisionComponent", entity1).currentBoundingBox,
                     GetComponentIn(em, "CollisionComponent", entity2).currentBoundingBox),
                 theCamera, thePlayer)

\* One pass of the pair loop's body after the validity test, past its
\* assertions.
CollisionPairOn(em, entity1, entity2, theCamera, thePlayer) ==
    LET star == StarOf(em, entity1, entity2, thePlayer)
    IN  IF ~CollisionDetected(em, entity1, entity2) THEN em
        ELSE IF star # 0 THEN CollectStar(em, star, thePlayer)
        ELSE ResolveCollision(
                 em, entity1, entity2,
                 CalculateOverlap(
                     GetComponentIn(em, "CollisionComponent", entity1).currentBoundingBox,
                     GetComponentIn(em, "CollisionComponent", entity2).currentBoundingBox),
                 theCamera, thePlayer)

\* The pair loop's ++j, and ++i with j = i + 1 at the end of a row.
NextPair(p) ==
    IF p.j + 1 < Len(p.entities)
    THEN [p EXCEPT !.j = @ + 1]
    ELSE [p EXCEPT !.i = @ + 1, !.j = p.i + 2]

\* A last block that leaves the contact memory as it is.
CollisionSystemFinishSkipped(em, thePlayer) == em

\* CollisionSystem's last block: the player's contact memory.
CollisionSystemFinishOn(em, thePlayer) ==
    LET collision == GetComponentIn(em, "CollisionComponent", thePlayer)
    IN  IF thePlayer # 0 /\ HasComponentIn(em, "CollisionComponent", thePlayer)
        THEN SetComponentIn(em, "CollisionComponent", thePlayer,
                 [collision EXCEPT
                     !.wasTouchingWallLast = collision.collidedLeft \/ collision.collidedRight,
                     !.wasStandingLast = collision.collidedBottom])
        ELSE em

\* The frame drawn after the spawn.
RunOrderRendersLast ==
    <<"ProcessEvents", "CollisionSystemUpdate", "InputSystem", "GravitySystem",
      "MovementSystem", "CollisionSystem", "ScoreSystem", "TimeSystem",
      "CameraSystem", "SpawnSystem", "SpriteSystem">>

\* The order ECSEngine::Run calls the systems in.
RunOrder ==
    <<"ProcessEvents", "CollisionSystemUpdate", "InputSystem", "GravitySystem",
      "MovementSystem", "CollisionSystem", "ScoreSystem", "TimeSystem",
      "CameraSystem", "SpriteSystem", "SpawnSystem">>

\* What Run does after a system returns: the next system, or the loop's
\* test after the last one.
After(system) ==
    LET k == CHOOSE n \in 1 .. Len(RunOrder) : RunOrder[n] = system
    IN  IF k < Len(RunOrder) THEN RunOrder[k + 1] ELSE "Run"

\* The deltaTime of a frame, in milliseconds.
DeltaTimes == {0, 100, 1000}

\* The velocities velDist gives a spawned star.
RandomVelocities == {Point2D(-50, 50), Point2D(50, -50)}

\* The components of the entities main and its loaders make, on a smaller
\* scale: a ground tile, a spawner of stars, the player with the two digits
\* of its score, and a star that does not move.
GroundTileComponents ==
    [DefaultComponents EXCEPT
        !.has = {"LocationComponent", "SpriteComponent", "CollisionComponent"},
        !.LocationComponent = [position |-> Point2D(-320, 1040)],
        !.CollisionComponent = CollisionComponent(Rect(0, -64, 640, 64), TRUE)]

SpawnerComponents ==
    [DefaultComponents EXCEPT
        !.has = {"LocationComponent", "SpawnComponent"},
        !.LocationComponent = [position |-> Point2D(64, 0)],
        !.SpawnComponent = [entityType |-> "star", spriteID |-> 1,
                            timeToNextSpawn |-> 0, spawnInterval |-> 1000,
                            spawnCount |-> 0, maxSpawns |-> MaxSpawns]]

PlayerComponents(displayEntities) ==
    [DefaultComponents EXCEPT
        !.has = {"LocationComponent", "MovementComponent", "AccelerationComponent",
                 "InputComponent", "SpriteComponent", "CollisionComponent",
                 "ScoreComponent"},
        !.MovementComponent = [velocity |-> Point2D(0, 0), maxSpeed |-> PLAYER_MAX_SPEED],
        !.AccelerationComponent = [acceleration |-> Point2D(PLAYER_ACCELERATION, 0)],
        !.SpriteComponent.spriteID = 2,
        !.CollisionComponent = CollisionComponent(Rect(0, -32, 32, 32), FALSE),
        !.ScoreComponent = [score |-> 0, displayEntities |-> displayEntities,
                            digitSprites |-> [d \in 1 .. 10 |-> 9 + d]]]

DigitComponents ==
    [DefaultComponents EXCEPT
        !.has = {"SpriteComponent", "LocationComponent"},
        !.SpriteComponent = [spriteID |-> 10, worldSpace |-> FALSE, isAlive |-> TRUE]]

LonelyStarComponents(position) ==
    [DefaultComponents EXCEPT
        !.has = {"LocationComponent", "SpriteComponent", "CollisionComponent"},
        !.LocationComponent = [position |-> position],
        !.SpriteComponent.spriteID = 1,
        !.CollisionComponent = CollisionComponent(Rect(0, -32, 32, 32), FALSE)]

\* Where the lonely star is: in the player's way down to the ground, or
\* out of the way.
StarSpots == {Point2D(16, 972), Point2D(600, 0)}

\* The state Run is called in.
GameInit ==
    /\ \E starAt \in StarSpots :
           entityManager =
               [mEntities |-> <<Entity(0, "tile"), Entity(1, "tile"), Entity(2, "spawner"),
                                Entity(3, "player"), Entity(4, "Num0"), Entity(5, "Num1"),
                                Entity(6, "main_camera"), Entity(7, "star")>>,
                mValid |-> <<TRUE, TRUE, TRUE, TRUE, TRUE, TRUE, TRUE, TRUE>>,
                mFreeList |-> <<>>,
                comps |-> <<SkyTileComponents, GroundTileComponents, SpawnerComponents,
                            PlayerComponents(<<4, 5>>), DigitComponents, DigitComponents,
                            CameraComponents, LonelyStarComponents(starAt)>>]
    /\ pass = Pass(<<>>, 0, 0, 0, 0)
    /\ pc = "Run"
    /\ engine = [isOpen |-> TRUE, deltaTime |-> 0, frames |-> 0]
    /\ trace = NoTrace

\* A tile of the world map that has a bounding box: a static body.
SolidTileComponents(position, boundingBox) ==
    [DefaultComponents EXCEPT
        !.has = {"LocationComponent", "SpriteComponent", "CollisionComponent"},
        !.LocationComponent = [position |-> position],
        !.CollisionComponent = CollisionComponent(boundingBox, TRUE)]

\* The state Run is called in on a map of four solid tiles around the place
\* the player is created at: a block that touches the player's box on the
\* left and is the first entity created, the ground under the player, a wall
\* 4 to its right that reaches into the ground, and a ceiling 8 above it;
\* no spawner, and the star out of the way.
WallsInit ==
    /\ entityManager =
           [mEntities |-> <<Entity(0, "tile"), Entity(1, "tile"), Entity(2, "tile"),
                            Entity(3, "tile"), Entity(4, "player"), Entity(5, "Num0"),
                            Entity(6, "Num1"), Entity(7, "main_camera"),
                            Entity(8, "star")>>,
            mValid |-> <<TRUE, TRUE, TRUE, TRUE, TRUE, TRUE, TRUE, TRUE, TRUE>>,
            mFreeList |-> <<>>,
            comps |-> <<SolidTileComponents(Point2D(-64, 0), Rect(0, -64, 64, 64)),
                        SolidTileComponents(Point2D(-320, 64), Rect(0, -64, 640, 64)),
                        SolidTileComponents(Point2D(36, 32), Rect(0, -96, 64, 96)),
                        SolidTileComponents(Point2D(-320, -40), Rect(0, -64, 640, 64)),
                        PlayerComponents(<<5, 6>>), DigitComponents, DigitComponents,
                        CameraComponents, LonelyStarComponents(Point2D(600, 0))>>]
    /\ pass = Pass(<<>>, 0, 0, 0, 0)
    /\ pc = "Run"
    /\ engine = [isOpen |-> TRUE, deltaTime |-> 0, frames |-> 0]
    /\ trace = NoTrace

\* while (mWindowManager.GetWindow()->isOpen()): the window is open, a frame
\* begins with the time the last one took.
BeginFrame ==
    /\ Running
    /\ pc = "Run"
    /\ engine.isOpen
    /\ engine.frames < MaxFrames
    /\ \E deltaTime \in DeltaTimes :
           engine' = [engine EXCEPT !.deltaTime = deltaTime, !.frames = @ + 1]
    /\ pc' = RunOrder[1]
    /\ trace' = [trace EXCEPT !.ran = <<>>]
    /\ UNCHANGED <<entityManager, pass, aborted>>
    /\ UNCHANGED exceptGame

\* The window is closed: Run returns.
RunReturns ==
    /\ Running
    /\ pc = "Run"
    /\ ~engine.isOpen
    /\ pc' = "returned"
    /\ UNCHANGED <<entityManager, pass, engine, trace, aborted>>
    /\ UNCHANGED exceptGame

\* Run calls the system: its assertion fails, or it leaves the entity
\* manager as em and returns.
RunSystem(system, failure, em) ==
    /\ Running
    /\ pc = system
    /\ IF failure # ""
       THEN /\ aborted' = failure
            /\ UNCHANGED <<entityManager, pc, trace>>
       ELSE /\ entityManager' = em
            /\ pc' = After(system)
            /\ trace' = [trace EXCEPT !.ran = Append(@, system)]
            /\ UNCHANGED aborted
    /\ UNCHANGED pass
    /\ UNCHANGED exceptGame

ProcessEvents ==
    \E events \in PolledEvents :
        /\ RunSystem("ProcessEvents", "", ProcessEventsOn(entityManager, events))
        /\ engine' = [engine EXCEPT
                         !.isOpen = @ /\ ~(\E n \in 1 .. Len(events) :
                                              events[n].type = "Closed")]

CollisionSystemUpdate ==
    /\ RunSystem("CollisionSystemUpdate", "", CollisionSystemUpdateOn(entityManager))
    /\ UNCHANGED engine

InputSystem ==
    /\ RunSystem("InputSystem", InputSystemFailure(entityManager),
                 InputSystemOn(entityManager, engine.deltaTime))
    /\ UNCHANGED engine

GravitySystem ==
    /\ RunSystem("GravitySystem", "", GravitySystemOn(entityManager, engine.deltaTime))
    /\ UNCHANGED engine

MovementSystem ==
    /\ RunSystem("MovementSystem", "", MovementSystemOn(entityManager, engine.deltaTime))
    /\ UNCHANGED engine

\* CollisionSystem up to its pair loop.
CollisionSystem ==
    /\ Running
    /\ pc = "CollisionSystem"
    /\ IF CollisionSystemFailure(entityManager) # ""
       THEN /\ aborted' = CollisionSystemFailure(entityManager)
            /\ UNCHANGED <<entityManager, pass, pc, trace>>
       ELSE /\ entityManager' = CollisionSystemCollectOn(entityManager)
            /\ pass' = CollisionSystemLocals(entityManager)
            /\ pc' = "CollisionSystem pairs"
            /\ trace' = [trace EXCEPT !.ran = Append(@, "CollisionSystem"),
                                      !.removed = {}, !.processed = {},
                                      !.resolved = {}]
            /\ UNCHANGED aborted
    /\ UNCHANGED engine
    /\ UNCHANGED exceptGame

\* One pass of CollisionSystem's pair loop, on entities[i] and entities[j].
CollisionSystemPair ==
    /\ Running
    /\ pc = "CollisionSystem pairs"
    /\ pass.j < Len(pass.entities)
    /\ LET entity1 == pass.entities[pass.i + 1]
           entity2 == pass.entities[pass.j + 1]
           failure == CollisionPairFailure(entityManager, entity1, entity2,
                                           pass.theCamera, pass.thePlayer)
           detected == CollisionDetected(entityManager, entity1, entity2)
           star == StarOf(entityManager, entity1, entity2, pass.thePlayer)
           overlap == CalculateOverlap(
               GetComponentIn(entityManager, "CollisionComponent", entity1).currentBoundingBox,
               GetComponentIn(entityManager, "CollisionComponent", entity2).currentBoundingBox)
       IN  IF ~BothValid(entityManager, entity1, entity2)
           THEN /\ pass' = NextPair(pass)
                /\ UNCHANGED <<entityManager, trace, aborted>>
           ELSE IF failure # ""
           THEN /\ aborted' = failure
                /\ UNCHANGED <<entityManager, pass, trace>>
           ELSE /\ entityManager' = CollisionPairOn(entityManager, entity1, entity2,
                                                    pass.theCamera, pass.thePlayer)
                /\ pass' = NextPair(IF detected /\ star = 0
                                    THEN [pass EXCEPT !.overlap = overlap]
                                    ELSE pass)
                /\ trace' =
                       [trace EXCEPT
                           !.processed = @ \cup {<<entity1, entity2>>},
                           !.removed = IF detected /\ star # 0 THEN @ \cup {star} ELSE @,
                           !.collected = IF detected /\ star # 0 THEN @ + 1 ELSE @,
                           !.sparkle = IF detected /\ star # 0 THEN @ + 1 ELSE @,
                           !.resolved = IF detected /\ star = 0
                                        THEN @ \cup {<<entity1, entity2>>}
                                        ELSE @,
                           !.mutatedWhileBorrowed =
                               IF detected /\ star # 0
                               THEN @ \cup { [system |-> "CollisionSystem", storage |-> T] :
                                               T \in CollectStarBorrows \cap
                                                     entityManager.comps[star + 1].has }
                               ELSE @]
                /\ UNCHANGED aborted
    /\ UNCHANGED <<pc, engine>>
    /\ UNCHANGED exceptGame

\* CollisionSystem after its pair loop.
CollisionSystemFinish ==
    /\ Running
    /\ pc = "CollisionSystem pairs"
    /\ ~(pass.j < Len(pass.entities))
    /\ entityManager' = CollisionSystemFinishOn(entityManager, pass.thePlayer)
    /\ pc' = After("CollisionSystem")
    /\ trace' = [trace EXCEPT !.flagsAtEnd =
                     [k \in 1 .. Len(entityManager.comps) |->
                         FlagsSet(entityManager.comps[k].CollisionComponent)]]
    /\ UNCHANGED <<pass, engine, aborted>>
    /\ UNCHANGED exceptGame

ScoreSystem ==
    /\ RunSystem("ScoreSystem", ScoreSystemFailure(entityManager),
                 ScoreSystemOn(entityManager))
    /\ UNCHANGED engine

TimeSystem ==
    /\ RunSystem("TimeSystem", "", TimeSystemOn(entityManager, engine.deltaTime))
    /\ UNCHANGED engine

CameraSystem ==
    /\ RunSystem("CameraSystem", CameraSystemFailure(entityManager),
                 CameraSystemOn(entityManager, engine.deltaTime))
    /\ UNCHANGED engine

SpriteSystem ==
    /\ RunSystem("SpriteSystem", SpriteSystemFailure(entityManager), entityManager)
    /\ UNCHANGED engine

\* SpawnSystem.  A spawn that appends to mEntities may move the vector the
\* range-for is going through: the loop then reads freed memory, which goes
\* unnoticed or ends the process.
SpawnSystem ==
    /\ Running
    /\ pc = "SpawnSystem"
    /\ \E randomVelocity \in RandomVelocities, noticed \in BOOLEAN :
         LET failure == SpawnSystemFailure(entityManager, engine.deltaTime)
             em == SpawnSystemOn(entityManager, engine.deltaTime, randomVelocity)
             spawned == Spawning(entityManager, engine.deltaTime) # {}
             appended == Len(em.mEntities) > Len(entityManager.mEntities)
         IN  IF failure # ""
             THEN /\ aborted' = failure
                  /\ UNCHANGED <<entityManager, pc, trace>>
             ELSE /\ entityManager' = em
                  /\ aborted' = IF appended /\ noticed
                                THEN "heap-use-after-free"
                                ELSE aborted
                  /\ pc' = IF appended /\ noticed THEN pc ELSE After("SpawnSystem")
                  /\ trace' =
                         [trace EXCEPT
                             !.ran = Append(@, "SpawnSystem"),
                             !.mutatedWhileBorrowed =
                                 IF spawned
                                 THEN @ \cup { [system |-> "SpawnSystem", storage |-> T] :
                                                 T \in SpawnSystemBorrows \cap
                                                       SpawnSystemStores }
                                 ELSE @]
    /\ UNCHANGED <<pass, engine>>
    /\ UNCHANGED exceptGame

GameNext ==
    \/ BeginFrame
    \/ RunReturns
    \/ ProcessEvents
    \/ CollisionSystemUpdate
    \/ InputSystem
    \/ GravitySystem
    \/ MovementSystem
    \/ CollisionSystem
    \/ CollisionSystemPair
    \/ CollisionSystemFinish
    \/ ScoreSystem
    \/ TimeSystem
    \/ CameraSystem
    \/ SpriteSystem
    \/ SpawnSystem

\* The state after construction: an empty storage, an empty EntityManager.
Init ==
    /\ StorageInit
    /\ RegistryInit
    /\ GeometryIdle
    /\ GameIdle
    /\ aborted = ""

\* The stand-alone ComponentStorage under every sequence of calls.
SpecStorage == Init /\ [][StorageNext]_vars

\* The EntityManager under every sequence of calls.
SpecRegistry == Init /\ [][RegistryNext]_vars

\* RectIntersect on every pair of test rectangles.
InitRect ==
    /\ StorageInit
    /\ RegistryInit
    /\ GeometryInit
    /\ GameIdle
    /\ aborted = ""

SpecRect == InitRect /\ [][GeometryNext]_vars

\* ResolveCollision on every pair of test bodies.
InitResolve ==
    /\ StorageInit
    /\ RegistryInit
    /\ GeometryIdle
    /\ ResolveInit
    /\ aborted = ""

SpecResolve == InitResolve /\ [][ResolveNext]_vars

\* Run on the small world, for MaxFrames frames.
InitGame ==
    /\ StorageInit
    /\ RegistryInit
    /\ GeometryIdle
    /\ GameInit
    /\ aborted = ""

SpecGame == InitGame /\ [][GameNext]_vars

\* Run on the map of solid tiles, for MaxFrames frames.
InitWalls ==
    /\ StorageInit
    /\ RegistryInit
    /\ GeometryIdle
    /\ WallsInit
    /\ aborted = ""

SpecWalls == InitWalls /\ [][GameNext]_vars

\* The same run, never left standing: Run's loop calls one system after the
\* other, each returns, and the loop goes on while the window is open.
SpecWallsFair == InitWalls /\ [][GameNext]_vars /\ WF_vars(GameNext)

(***************************************************************************)
(* Properties of the stand-alone ComponentStorage.                         *)
(***************************************************************************)
\* The slots of a storage whose validity marker is true / false.
ValidSlots(st) == { s \in 0 .. Len(st.mValid) - 1 : st.mValid[s + 1] }
InvalidSlots(st) == { s \in 0 .. Len(st.mValid) - 1 : ~st.mValid[s + 1] }

\* A sequence holds no element twice.
NoDuplicates(s) == \A i, j \in 1 .. Len(s) : s[i] = s[j] => i = j

\* C1: after any sequence of store() and remove() calls (a remove of a slot
\* that is not valid fails its assertion and changes nothing), size() is the
\* number of slots marked valid, which is the number of stores minus the
\* number of removes, and the free list holds exactly the invalid slots,
\* each once.
C1_CountMatchesValidSlots ==
    /\ size(cs) = Cardinality(ValidSlots(cs))
    /\ size(cs) = nStored - nRemoved
    /\ Range(cs.mFreeList) = InvalidSlots(cs)
    /\ NoDuplicates(cs.mFreeList)
    /\ Len(cs.mValid) = Len(cs.mStorage)

\* C1's case: several stores and removes have happened, slots of both kinds exist.
C1_Witness ==
    /\ nStored >= 3
    /\ nRemoved >= 2
    /\ Len(cs.mFreeList) = 2
    /\ size(cs) = 1

\* C8: when the free list is not empty store() returns the slot removed most
\* recently among those not handed out again, and the slot array keeps its
\* length; when the free list is empty store() appends one slot and returns
\* the previous array length.
C8_StoreReusesLastFreed ==
    [][ nStored' = nStored + 1 =>
          IF cs.mFreeList # <<>>
          THEN /\ csFreed # <<>>
               /\ csOp'.id = Back(csFreed)
               /\ Len(cs'.mStorage) = Len(cs.mStorage)
          ELSE /\ csOp'.id = Len(cs.mStorage)
               /\ Len(cs'.mStorage) = Len(cs.mStorage) + 1 ]_vars

\* C8's case: with two slots on the free list, the store just made returned
\* the one removed last (slot 0 was removed before slot 1).
C8_Witness ==
    /\ csOp.op = "store"
    /\ csOp.id = 1
    /\ cs.mFreeList = <<0>>
    /\ Len(cs.mStorage) = 2

\* C9: a store() or remove() leaves every valid slot other than the one
\* removed valid and holding the same value, and store() never returns a
\* slot that is valid when it is called.
C9_SlotStable ==
    [][ (nStored' # nStored \/ nRemoved' # nRemoved) =>
          /\ \A s \in ValidSlots(cs) :
                 ~(nRemoved' # nRemoved /\ csOp'.id = s) =>
                     /\ valid(cs', s)
                     /\ cs'.mStorage[s + 1] = cs.mStorage[s + 1]
          /\ nStored' # nStored => ~valid(cs, csOp'.id) ]_vars

\* C9's case: slot 0 still holds the value 1 stored there while another slot
\* was removed and handed out again.
C9_Witness ==
    /\ valid(cs, 0)
    /\ cs.mStorage[1] = 1
    /\ nRemoved >= 1
    /\ csOp.op = "store"
    /\ csOp.id = 1
    /\ nStored >= 3

\* C10: a remove(s), or a read or write of slot s through either form of
\* operator[], made while s is not valid fails an assertion and leaves the
\* storage unchanged.
C10_InvalidSlotAccessAsserts ==
    [][ (csOp'.op \in {"remove", "get", "write", "cget"} /\ ~valid(cs, csOp'.id)) =>
          (csOp'.asserted /\ cs' = cs) ]_vars

(***************************************************************************)
(* Properties of the EntityManager.                                        *)
(***************************************************************************)
\* The entity slots that exist, and those marked valid.
EntitySlots == 0 .. Len(mValid) - 1
LiveIds == { e \in EntitySlots : mValid[e + 1] }

\* The fields of the EntityManager (without the history variables).
emFields == <<mEntities, mEntityToComponentIdx, mFreeList, mValid, mRegistries>>

\* The slots of type t recorded for live entities.
RecordedSlots(t) ==
    { mEntityToComponentIdx[e + 1][t] :
          e \in { x \in LiveIds : HasComponent(t, x) } }

\* C2: an id is valid exactly when one entity created with it has not been
\* destroyed, no id denotes two such entities, and the id CreateEntity is
\* about to return is not valid.
C2_ValidIdDenotesOneEntity ==
    /\ \A id \in EntityIds :
           liveEntities[id] = (IF ValidEntity(id) THEN 1 ELSE 0)
    /\ \A name \in Names : ~ValidEntity(createEntity(name).ret)

\* C2's case: two entities are live, one of them under a recycled id.
C2_Witness ==
    /\ LiveIds = {0, 1}
    /\ 0 \in staleHandles
    /\ mFreeList = <<>>

\* C3: the id of a destroyed entity, still held by a caller, fails
\* ValidEntity from then on, also after a later CreateEntity.
C3_StaleHandleIsInvalid ==
    \A h \in staleHandles : ~ValidEntity(h)

\* C4: in every state, for every component type, the valid slots of its
\* storage are exactly the slots recorded for live entities, no two live
\* entities record the same slot, and dead entities record none; and a
\* RemoveEntity of a live entity leaves every slot it held invalid in its
\* storage, the entity invalid and its id on top of the entity free list.
C4_RegistryMatchesStorages ==
    /\ [](/\ \A t \in CompTypes :
               /\ ValidSlots(mRegistries[t]) = RecordedSlots(t)
               /\ \A a, b \in LiveIds :
                      (/\ HasComponent(t, a)
                       /\ HasComponent(t, b)
                       /\ mEntityToComponentIdx[a + 1][t] = mEntityToComponentIdx[b + 1][t])
                      => a = b
           /\ \A e \in EntitySlots \ LiveIds : mEntityToComponentIdx[e + 1] = EmptyRow
           /\ Len(mEntityToComponentIdx) = Len(mValid)
           /\ Len(mEntities) = Len(mValid))
    /\ [][ \A e \in EntityIds :
              (RemoveEntity(e) /\ liveEntities[e] > 0) =>
                  /\ \A t \in CompTypes :
                         HasComponent(t, e) =>
                             ~valid(mRegistries'[t], mEntityToComponentIdx[e + 1][t])
                  /\ ~ValidEntity(e)'
                  /\ Back(mFreeList') = e ]_vars

\* C4's case: an entity that held a component of every type has been
\* removed while another entity still holds components.
C4_Witness ==
    /\ LiveIds = {1}
    /\ 0 \in staleHandles
    /\ \A t \in CompTypes : HasComponent(t, 1) /\ Len(mRegistries[t].mFreeList) = 1

\* C5: an AddComponent<T> on an entity that is not live, or that already
\* holds a T, fails an assertion and leaves every field of the
\* EntityManager, T's storage included, unchanged.
C5_DuplicateAddAsserts ==
    [][ \A t \in CompTypes, e \in EntityIds, v \in Values :
          (/\ AddComponent(t, e, v)
           /\ \/ liveEntities[e] = 0
              \/ HasComponent(t, e)) =>
              (aborted' # "" /\ emFields' = emFields) ]_vars

\* C5's case: an AddComponent has failed on a live entity that already
\* holds a component of that type.
C5_Witness ==
    /\ aborted = "compID == INVALID_COMPONENT_INDEX"
    /\ \E e \in LiveIds, t \in CompTypes : HasComponent(t, e)

\* C6: RemoveEntity on an id that is not live, and RemoveComponent<T> on an
\* entity that is not live or holds no T, change no field of the
\* EntityManager and fail no assertion; the entity free list never holds an
\* id twice.
C6_AbsentRemovalIsNoOp ==
    /\ [][ \A e \in EntityIds :
              /\ (RemoveEntity(e) /\ liveEntities[e] = 0) =>
                     (aborted' = "" /\ emFields' = emFields)
              /\ \A t \in CompTypes :
                     (/\ RemoveComponent(t, e)
                      /\ \/ liveEntities[e] = 0
                         \/ ~HasComponent(t, e)) =>
                         (aborted' = "" /\ emFields' = emFields) ]_vars
    /\ []NoDuplicates(mFreeList)

\* C6's case: RemoveEntity has just returned at its guard with an entity
\* destroyed earlier, its id once on the free list.
C6_Witness ==
    /\ earlyReturn = "RemoveEntity"
    /\ staleHandles = {0}
    /\ mFreeList = <<0>>
    /\ Len(mValid) = 2

\* The component of type t held by entity e, <<>> when it holds none.
Held(t, e) == IF HasComponent(t, e) THEN <<GetComponent(t, e)>> ELSE <<>>

\* C7: after AddComponent<T>(e, v) GetComponent<T>(e) passes its assertions
\* and yields v; after a write of v through the reference GetComponent<T>(e)
\* yields v; after RemoveComponent<T>(e) HasComponent<T>(e) is false and
\* GetComponent<T>(e) fails an assertion; and each of the three leaves the
\* components of other types and of other entities as they were.
C7_ComponentRoundTrip ==
    [][ \A t \in CompTypes, e \in EntityIds :
          /\ \A v \in Values :
                 ((AddComponent(t, e, v) \/ SetComponent(t, e, v)) /\ aborted' = "") =>
                     /\ GetComponentFailure(t, e)' = ""
                     /\ GetComponent(t, e)' = v
          /\ (RemoveComponent(t, e) /\ liveEntities[e] > 0) =>
                 /\ ~HasComponent(t, e)'
                 /\ GetComponentFailure(t, e)' # ""
          /\ (GetComponentCall(t, e) /\ liveEntities[e] > 0 /\ ~HasComponent(t, e)) =>
                 aborted' # ""
          /\ (\/ RemoveComponent(t, e)
              \/ \E v \in Values : AddComponent(t, e, v) \/ SetComponent(t, e, v)) =>
                 \A t2 \in CompTypes, e2 \in LiveIds :
                     (t2 # t \/ e2 # e) => Held(t2, e2)' = Held(t2, e2) ]_vars

\* C7's case: entity 1 holds a component of type 0 that was added after a
\* removal freed a slot and now has the value 1, while entity 0 holds a
\* component of the same type with the value 0.
C7_Witness ==
    /\ LiveIds = {0, 1}
    /\ Held(0, 1) = <<1>>
    /\ Held(0, 0) = <<0>>
    /\ mEntityToComponentIdx[2][0] = 0
    /\ mRegistries[0].mFreeList = <<>>

\* C11: a RemoveEntity of a live entity puts its id on top of the entity
\* free list; a CreateEntity with a non-empty free list returns the id on
\* top of it (the most recently freed one), takes it off the list and
\* leaves the number of entity slots as it is; with an empty free list it
\* returns the number of entity slots and adds one slot.  The id returned
\* is the one whose live count goes up.
C11_CreateEntityReusesFreedId ==
    [][ /\ \A e \in EntityIds :
              (RemoveEntity(e) /\ liveEntities[e] > 0 /\ aborted' = "") =>
                  mFreeList' = Append(mFreeList, e)
        /\ \A name \in Names :
              CreateEntity(name) =>
                  \E ret \in EntityIds :
                      /\ liveEntities' = [liveEntities EXCEPT ![ret] = @ + 1]
                      /\ mEntities'[ret + 1] = Entity(ret, name)
                      /\ IF mFreeList # <<>>
                         THEN /\ ret = Back(mFreeList)
                              /\ mFreeList' = PopBack(mFreeList)
                              /\ Len(mValid') = Len(mValid)
                              /\ Len(mEntities') = Len(mEntities)
                              /\ Len(mEntityToComponentIdx') = Len(mEntityToComponentIdx)
                         ELSE /\ ret = Len(mValid)
                              /\ mFreeList' = <<>>
                              /\ Len(mValid') = Len(mValid) + 1
                              /\ Len(mEntities') = Len(mEntities) + 1
                              /\ Len(mEntityToComponentIdx') =
                                     Len(mEntityToComponentIdx) + 1 ]_vars

\* C11's case: entities 0 and 1 were destroyed in that order and a
\* CreateEntity has then reused id 1, leaving id 0 on the free list.
C11_Witness ==
    /\ staleHandles = {0, 1}
    /\ LiveIds = {1}
    /\ mFreeList = <<0>>
    /\ Len(mValid) = 2

\* if (!entity.id) continue;  -- the test every system applies to an entry
\* of the entity list to tell a live entity from a dead slot.
EntryIsLive(entry) == entry.id # 0

\* C12: the entity list has one entry per entity slot; the entry at index k
\* carries id k when entity k is live and id 0 with an empty name when it
\* is dead; an entry with a non-zero id names a valid entity; and every
\* live entity is recognised as live from its entry.
C12_IterationEntries ==
    /\ Len(mEntities) = Len(mValid)
    /\ \A k \in EntitySlots :
           /\ mValid[k + 1] => mEntities[k + 1].id = k
           /\ ~mValid[k + 1] => mEntities[k + 1] = Entity(0, "")
           /\ EntryIsLive(mEntities[k + 1]) => ValidEntity(mEntities[k + 1].id)
           /\ mValid[k + 1] => EntryIsLive(mEntities[k + 1])

(***************************************************************************)
(* Properties of Rect.                                                     *)
(***************************************************************************)
\* The open intervals (l1, r1) and (l2, r2) have a point in common: with
\* integer ends, an integer or a half-integer point.
OpenIntervalsOverlap(l1, r1, l2, r2) ==
    \E p \in 2 * Min(l1, l2) .. 2 * Max(r1, r2) :
        /\ 2 * l1 < p /\ p < 2 * r1
        /\ 2 * l2 < p /\ p < 2 * r2

\* The X and the Y interval of a rectangle.
Left(r) == r.topLeft.x
Right(r) == r.topLeft.x + r.width
Top(r) == r.topLeft.y
Bottom(r) == r.topLeft.y + r.height

\* The statement of C13 on the rectangles tested.
RectIntersectIsOpenOverlap ==
    LET a == rects[1]
        b == rects[2]
    IN  /\ intersects[1] =
               (/\ OpenIntervalsOverlap(Left(a), Right(a), Left(b), Right(b))
                /\ OpenIntervalsOverlap(Top(a), Bottom(a), Top(b), Bottom(b)))
        /\ ~OpenIntervalsOverlap(Left(a), Right(a), Left(b), Right(b)) => ~intersects[1]
        /\ (Right(a) = Left(b) \/ Right(b) = Left(a)) => ~intersects[1]
        /\ (Bottom(a) = Top(b) \/ Bottom(b) = Top(a)) => ~intersects[1]
        /\ intersects[1] = intersects[2]

\* Both rectangles have a positive width and a positive height.
PositiveExtents ==
    \A i \in {1, 2} : rects[i].width > 0 /\ rects[i].height > 0

\* C13 as claimed: for every two rectangles, RectIntersect reports a
\* collision exactly when their open X intervals and their open Y intervals
\* both overlap; rectangles with disjoint X intervals and rectangles that
\* only touch do not collide; the test gives the same answer both ways.
C13_RectIntersectIsOpenOverlap ==
    intersects # <<>> => RectIntersectIsOpenOverlap

\* C13 as amended: the same for every two rectangles of positive width and
\* height.
C13_RectIntersectOfBoxes ==
    (intersects # <<>> /\ PositiveExtents) => RectIntersectIsOpenOverlap

\* C13's case: two boxes of positive extent that share their Y interval and
\* touch on X, the right edge of the first on the left edge of the second,
\* have been tested and found not to collide.
C13_Witness ==
    /\ intersects = <<FALSE, FALSE>>
    /\ PositiveExtents
    /\ Right(rects[1]) = Left(rects[2])
    /\ Top(rects[1]) = Top(rects[2])
    /\ rects[1].height = rects[2].height

(***************************************************************************)
(* Properties of ResolveCollision.                                         *)
(***************************************************************************)
\* The two bodies of the call and the overlap of their boxes.
Entity1 == pass.entities[pass.i + 1]
Entity2 == pass.entities[pass.j + 1]
Col(e) == GetComponentIn(entityManager, "CollisionComponent", e)
Loc(e) == GetComponentIn(entityManager, "LocationComponent", e)
Mov(e) == GetComponentIn(entityManager, "MovementComponent", e)
PairOverlap == CalculateOverlap(Col(Entity1).currentBoundingBox,
                                Col(Entity2).currentBoundingBox)

\* C14: a ResolveCollision call given an overlap with zero penetration on
\* an axis leaves the position and the boxes of both bodies as they were
\* and sets no contact flag on either.
C14_ZeroPenetrationIsNoOp ==
    [][ (/\ ResolveCall
         /\ aborted' = ""
         /\ PairOverlap.horizontal = 0 \/ PairOverlap.vertical = 0) =>
            \A e \in {Entity1, Entity2} :
                /\ Loc(e)' = Loc(e)
                /\ Col(e)'.currentBoundingBox = Col(e).currentBoundingBox
                /\ Col(e)'.previousBoundingBox = Col(e).previousBoundingBox
                /\ FlagsSet(Col(e)') = FlagsSet(Col(e)) ]_vars

\* The dynamic body d lies above the static body s, and the pair is about
\* to be separated vertically by a penetration v greater than zero.
LandsOn(d, s) ==
    /\ {d, s} = {Entity1, Entity2}
    /\ d # s
    /\ Col(s).isStatic
    /\ ~Col(d).isStatic
    /\ Top(Col(d).currentBoundingBox) < Top(Col(s).currentBoundingBox)
    /\ PairOverlap.vertical > 0
    /\ ~(PairOverlap.horizontal < PairOverlap.vertical)

\* C15: a ResolveCollision call on a dynamic body that overlaps a static
\* body from above, separated vertically with penetration v, moves the
\* dynamic body's position and box up by exactly v, leaves the static body
\* where it was, sets collidedBottom on the dynamic body, collidedTop on
\* the static body and no other contact flag, and brings the vertical
\* velocity of the player to 0 when the player was moving down.
C15_LandingOnStatic ==
    [][ \A d, s \in {1, 2} :
          (ResolveCall /\ aborted' = "" /\ LandsOn(d, s)) =>
              /\ Loc(d)'.position =
                     Point2D(Loc(d).position.x, Loc(d).position.y - PairOverlap.vertical)
              /\ Col(d)'.currentBoundingBox =
                     Rect(Left(Col(d).currentBoundingBox),
                          Top(Col(d).currentBoundingBox) - PairOverlap.vertical,
                          Col(d).currentBoundingBox.width,
                          Col(d).currentBoundingBox.height)
              /\ Loc(s)' = Loc(s)
              /\ Col(s)'.currentBoundingBox = Col(s).currentBoundingBox
              /\ FlagsSet(Col(d)') = FlagsSet(Col(d)) \cup {"collidedBottom"}
              /\ FlagsSet(Col(s)') = FlagsSet(Col(s)) \cup {"collidedTop"}
              /\ (/\ d = pass.thePlayer
                  /\ HasComponentIn(entityManager, "MovementComponent", d)
                  /\ Mov(d).velocity.y > 0) => Mov(d)'.velocity.y = 0 ]_vars

\* C15's case: the player came down 4 into a static body below it
\* and the call has returned: the player stands 4 higher, on the static
\* body's top edge, with the two flags set and no vertical velocity left.
C15_Witness ==
    /\ pc = "done"
    /\ aborted = ""
    /\ pass.overlap = [horizontal |-> 32, vertical |-> 4]
    /\ pass.thePlayer = Entity2
    /\ Col(Entity1).isStatic
    /\ Bottom(Col(Entity2).currentBoundingBox) = Top(Col(Entity1).currentBoundingBox)
    /\ Loc(Entity2).position.y = Top(Col(Entity2).currentBoundingBox)
    /\ FlagsSet(Col(Entity2)) = {"collidedBottom"}
    /\ FlagsSet(Col(Entity1)) = {"collidedTop"}
    /\ Mov(Entity2).velocity = Point2D(100, 0)

\* Two dynamic bodies with a velocity, neither of them the player, l to the
\* left of r, are about to be separated horizontally by a penetration
\* greater than zero.
BumpsInto(l, r) ==
    /\ {l, r} = {Entity1, Entity2}
    /\ l # r
    /\ ~Col(l).isStatic
    /\ ~Col(r).isStatic
    /\ pass.thePlayer \notin {l, r}
    /\ HasComponentIn(entityManager, "MovementComponent", l)
    /\ HasComponentIn(entityManager, "MovementComponent", r)
    /\ Left(Col(l).currentBoundingBox) < Left(Col(r).currentBoundingBox)
    /\ PairOverlap.horizontal > 0
    /\ PairOverlap.horizontal < PairOverlap.vertical

\* The point went from `from' to `to' along X only, by half of twiceDx.
MovedAlongX(from, to, twiceDx) ==
    /\ 2 * (to.x - from.x) = twiceDx
    /\ to.y = from.y

\* C16: a ResolveCollision call on two dynamic bodies, neither the player,
\* that overlap horizontally by p moves each of them p/2 away from the
\* other along X, the left one to the left and the right one to the right,
\* sets collidedRight on the left body and collidedLeft on the right body,
\* gives each body 0.7 times the horizontal velocity the other had, and
\* leaves the vertical velocities as they were.
C16_DynamicBodiesBounceApart ==
    [][ \A l, r \in {1, 2} :
          (ResolveCall /\ aborted' = "" /\ BumpsInto(l, r)) =>
              /\ MovedAlongX(Loc(l).position, Loc(l)'.position, -PairOverlap.horizontal)
              /\ MovedAlongX(Loc(r).position, Loc(r)'.position, PairOverlap.horizontal)
              /\ MovedAlongX(Col(l).currentBoundingBox.topLeft,
                             Col(l)'.currentBoundingBox.topLeft, -PairOverlap.horizontal)
              /\ MovedAlongX(Col(r).currentBoundingBox.topLeft,
                             Col(r)'.currentBoundingBox.topLeft, PairOverlap.horizontal)
              /\ FlagsSet(Col(l)') = FlagsSet(Col(l)) \cup {"collidedRight"}
              /\ FlagsSet(Col(r)') = FlagsSet(Col(r)) \cup {"collidedLeft"}
              /\ 10 * Mov(l)'.velocity.x = 7 * Mov(r).velocity.x
              /\ 10 * Mov(r)'.velocity.x = 7 * Mov(l).velocity.x
              /\ Mov(l)'.velocity.y = Mov(l).velocity.y
              /\ Mov(r)'.velocity.y = Mov(r).velocity.y ]_vars

\* C16's case: two dynamic bodies that are not the player overlapped by 10
\* along X while they moved toward each other at 100 and -100, and the call
\* has returned: they touch, 5 further apart each, with the flags of the
\* contact set and the velocities -70 and 70.
C16_Witness ==
    /\ pc = "done"
    /\ aborted = ""
    /\ pass.overlap = [horizontal |-> 10, vertical |-> 32]
    /\ pass.thePlayer \notin {Entity1, Entity2}
    /\ ~Col(Entity1).isStatic
    /\ ~Col(Entity2).isStatic
    /\ Loc(Entity1).position = Point2D(-5, 0)
    /\ Right(Col(Entity1).currentBoundingBox) = Left(Col(Entity2).currentBoundingBox)
    /\ FlagsSet(Col(Entity1)) = {"collidedRight"}
    /\ FlagsSet(Col(Entity2)) = {"collidedLeft"}
    /\ Mov(Entity1).velocity = Point2D(-70, 100)
    /\ Mov(Entity2).velocity = Point2D(70, -100)

(***************************************************************************)
(* Properties of the frame: the collision pass, the spawns, the order of   *)
(* the systems.                                                            *)
(***************************************************************************)
\* Two boxes of positive extent overlap.
BoxesOverlap(a, b) ==
    /\ Left(a) < Right(b) /\ Left(b) < Right(a)
    /\ Top(a) < Bottom(b) /\ Top(b) < Bottom(a)

\* The pair loop is at the player p and a live entity s named "star", whose
\* boxes overlap.
PlayerMeetsStar(p, s) ==
    /\ pc = "CollisionSystem pairs"
    /\ pass.j < Len(pass.entities)
    /\ {p, s} = {Entity1, Entity2}
    /\ ValidEntityIn(entityManager, p)
    /\ ValidEntityIn(entityManager, s)
    /\ HasComponentIn(entityManager, "InputComponent", p)
    /\ GetEntityName(entityManager, s) = "star"
    /\ BoxesOverlap(Col(p).currentBoundingBox, Col(s).currentBoundingBox)

\* C17: when the pair loop comes to the player and an entity named "star"
\* whose boxes overlap, that pass of the loop makes the star invalid, adds
\* exactly 10 to the player's score, and leaves the player's position, box,
\* velocity and contact flags as they were; the star, destroyed, holds no
\* position, velocity or flag any more.
C17_Pickup ==
    [][ (CollisionSystemPair /\ aborted' = "") =>
          \A p, s \in {Entity1, Entity2} :
            PlayerMeetsStar(p, s) =>
              /\ ~ValidEntityIn(entityManager', s)
              /\ GetComponentIn(entityManager', "ScoreComponent", p).score =
                     GetComponentIn(entityManager, "ScoreComponent", p).score + 10
              /\ Loc(p)' = Loc(p)
              /\ Mov(p)' = Mov(p)
              /\ Col(p)' = Col(p)
              /\ entityManager'.comps[s + 1] = DefaultComponents ]_vars

\* C17's case: the player has come down on the ground, where the lonely
\* star was in its way, and the pair loop has gone past the two: the star
\* is gone, the score is 10, and the player is where the ground put it,
\* with the flag of the ground only.
C17_Witness ==
    /\ pc = "CollisionSystem pairs"
    /\ aborted = ""
    /\ <<3, 7>> \in trace.processed
    /\ trace.removed = {7}
    /\ ~ValidEntityIn(entityManager, 7)
    /\ GetComponentIn(entityManager, "ScoreComponent", 3).score = 10
    /\ Loc(3).position = Point2D(0, 976)
    /\ FlagsSet(Col(3)) = {"collidedBottom"}

\* C18: no system of the frame stores to or removes from a component
\* storage while the running function holds a reference it got from that
\* storage: not CollisionSystem on its pickup path, not SpawnSystem when it
\* spawns.
C18_BorrowDiscipline ==
    trace.mutatedWhileBorrowed = {}

\* The pairs of candidates of the pass, in the order of the list.
CandidatePairs ==
    { <<pass.entities[ij[1]], pass.entities[ij[2]]>> :
          ij \in { p \in (1 .. Len(pass.entities)) \X (1 .. Len(pass.entities)) :
                       p[1] < p[2] } }

\* C19: once the pair loop has destroyed a collectible, the candidate list
\* stays the one taken before the loop; a later pair with the destroyed
\* entity in it is passed over without a read or a write of any component;
\* no assertion fails in the rest of the pass; and when the loop ends every
\* pair of candidates that are both still live has gone through the loop's
\* body.
C19_DestructionInPairLoop ==
    [][ /\ (CollisionSystemPair /\ trace.removed # {}) =>
             /\ pass'.entities = pass.entities
             /\ aborted' = ""
             /\ ({Entity1, Entity2} \cap trace.removed # {}) =>
                    /\ entityManager' = entityManager
                    /\ trace'.processed = trace.processed
        /\ CollisionSystemFinish =>
             \A pair \in CandidatePairs :
                 BothValid(entityManager, pair[1], pair[2]) => pair \in trace.processed
      ]_vars

\* C19's case: the pass had the ground, the player, the lonely star and a
\* spawned star to go through; it destroyed the lonely star at the pair with
\* the player, went on to the player and the spawned star, passed over the
\* lonely star and the spawned star, and has ended.
C19_Witness ==
    /\ pc = "ScoreSystem"
    /\ aborted = ""
    /\ pass.entities = <<1, 3, 7, 8>>
    /\ trace.removed = {7}
    /\ <<3, 7>> \in trace.processed
    /\ <<3, 8>> \in trace.processed
    /\ <<7, 8>> \notin trace.processed
    /\ ValidEntityIn(entityManager, 8)

\* The systems of a frame in the order claimed: event intake, previous-box
\* snapshot, input, gravity, integration, collision, score, timers, camera,
\* render, spawn.
FrameOrder ==
    <<"ProcessEvents", "CollisionSystemUpdate", "InputSystem", "GravitySystem",
      "MovementSystem", "CollisionSystem", "ScoreSystem", "TimeSystem",
      "CameraSystem", "SpriteSystem", "SpawnSystem">>

\* C20: within a frame the systems run so far are the first ones of the
\* fixed order, each once; a frame ends, after the spawn, with all eleven
\* run; and the collision system begins by clearing the contact flags and
\* putting the boxes of the dynamic bodies where their locations are.
C20_FrameOrder ==
    /\ [](aborted = "" =>
            /\ Len(trace.ran) <= Len(FrameOrder)
            /\ trace.ran = SubSeq(FrameOrder, 1, Len(trace.ran)))
    /\ [][ (pc # "Run" /\ pc' = "Run") =>
               /\ SpawnSystem
               /\ trace'.ran = FrameOrder ]_vars
    /\ [][ (CollisionSystem /\ aborted' = "") =>
               \A e \in IteratedIds(entityManager) :
                   HasComponentIn(entityManager, "CollisionComponent", e) =>
                       /\ FlagsSet(Col(e)') = {}
                       /\ ~Col(e).isStatic =>
                              Col(e)'.currentBoundingBox.topLeft =
                                  Point2D(Loc(e).position.x + Col(e).boundingBoxOffset.x,
                                          Loc(e).position.y + Col(e).boundingBoxOffset.y)
          ]_vars

\* C20's case: a second frame has run to its end.
C20_Witness ==
    /\ pc = "Run"
    /\ aborted = ""
    /\ engine.frames = 2
    /\ trace.ran = FrameOrder

\* The contact flags of the X axis and of the Y axis.
HorizontalFlags == {"collidedLeft", "collidedRight"}
VerticalFlags == {"collidedTop", "collidedBottom"}

\* The call left the body e where it was along X / along Y: its position
\* and its box.
KeptX(e) ==
    /\ Loc(e)'.position.x = Loc(e).position.x
    /\ Left(Col(e)'.currentBoundingBox) = Left(Col(e).currentBoundingBox)
KeptY(e) ==
    /\ Loc(e)'.position.y = Loc(e).position.y
    /\ Top(Col(e)'.currentBoundingBox) = Top(Col(e).currentBoundingBox)

\* C24: a ResolveCollision call on two overlapping bodies whose horizontal
\* penetration is strictly smaller than the vertical one sets, on each
\* body, one of the left/right flags and no top/bottom flag, moves a body
\* along X and none along Y; otherwise, the two penetrations being equal
\* included, it sets one of the top/bottom flags and no left/right flag on
\* each body, moves a body along Y and none along X.
C24_AxisSelection ==
    [][ (/\ ResolveCall
         /\ aborted' = ""
         /\ PairOverlap.horizontal > 0
         /\ PairOverlap.vertical > 0) =>
            IF PairOverlap.horizontal < PairOverlap.vertical
            THEN /\ \A e \in {Entity1, Entity2} :
                        /\ FlagsSet(Col(e)') \ FlagsSet(Col(e)) \subseteq HorizontalFlags
                        /\ FlagsSet(Col(e)') \cap HorizontalFlags # {}
                        /\ KeptY(e)
                 /\ \E e \in {Entity1, Entity2} : ~KeptX(e)
            ELSE /\ \A e \in {Entity1, Entity2} :
                        /\ FlagsSet(Col(e)') \ FlagsSet(Col(e)) \subseteq VerticalFlags
                        /\ FlagsSet(Col(e)') \cap VerticalFlags # {}
                        /\ KeptX(e)
                 /\ \E e \in {Entity1, Entity2} : ~KeptY(e) ]_vars

\* C24's case: two bodies that overlapped by 10 along X and by 10 along Y
\* have been resolved: the first one, which was above and to the left, has
\* the flag of its bottom and none of its sides, and the two boxes touch
\* along Y while they still share 10 along X.
C24_Witness ==
    /\ pc = "done"
    /\ aborted = ""
    /\ pass.overlap = [horizontal |-> 10, vertical |-> 10]
    /\ FlagsSet(Col(Entity1)) = {"collidedBottom"}
    /\ FlagsSet(Col(Entity2)) = {"collidedTop"}
    /\ Bottom(Col(Entity1).currentBoundingBox) = Top(Col(Entity2).currentBoundingBox)
    /\ Right(Col(Entity1).currentBoundingBox) - Left(Col(Entity2).currentBoundingBox) = 10

\* The boxes of the two bodies of the call intersect.
PairIntersects ==
    RectIntersect(Col(Entity1).currentBoundingBox, Col(Entity2).currentBoundingBox)

\* C25: after a ResolveCollision call on two bodies whose boxes
\* intersected, a static and a dynamic one or two dynamic ones, the two
\* boxes do not intersect any more.
C25_ResolutionEndsOverlap ==
    [][ (ResolveCall /\ aborted' = "" /\ PairIntersects) => ~PairIntersects' ]_vars

\* The call is on a static body s and the player d, which has a location
\* and a velocity, and their boxes overlap.
PlayerMeetsStatic(d, s) ==
    /\ {d, s} = {Entity1, Entity2}
    /\ d # s
    /\ Col(s).isStatic
    /\ ~Col(d).isStatic
    /\ d = pass.thePlayer
    /\ HasComponentIn(entityManager, "LocationComponent", d)
    /\ HasComponentIn(entityManager, "MovementComponent", d)
    /\ PairOverlap.horizontal > 0
    /\ PairOverlap.vertical > 0

\* The player d moves toward the static body s along Y: down when its box
\* lies above, up when it lies below.
MovesTowardAlongY(d, s) ==
    IF Top(Col(d).currentBoundingBox) > Top(Col(s).currentBoundingBox)
    THEN Mov(d).velocity.y < 0
    ELSE Mov(d).velocity.y > 0

\* C28 as claimed: after a ResolveCollision call on a static body and the
\* player, the player's velocity along the resolved axis is zero, and after
\* a wall contact its downward speed is at most 150.
C28_PlayerVelocityZeroed ==
    [][ \A d, s \in {1, 2} :
          (ResolveCall /\ aborted' = "" /\ PlayerMeetsStatic(d, s)) =>
              IF PairOverlap.horizontal < PairOverlap.vertical
              THEN /\ Mov(d)'.velocity.x = 0
                   /\ Mov(d)'.velocity.y <= 150
              ELSE Mov(d)'.velocity.y = 0 ]_vars

\* C28 as amended: after a wall contact the player's horizontal velocity is
\* zero and its vertical velocity the one it had, brought down to 150 when
\* it was greater; after a floor or ceiling contact its vertical velocity
\* is zero when it moved toward the static body and the one it had when it
\* moved away or not at all, and its horizontal velocity is the one it had.
\* The velocity is never reversed.
C28_PlayerStopsAtStatic ==
    [][ \A d, s \in {1, 2} :
          (ResolveCall /\ aborted' = "" /\ PlayerMeetsStatic(d, s)) =>
              IF PairOverlap.horizontal < PairOverlap.vertical
              THEN /\ Mov(d)'.velocity.x = 0
                   /\ Mov(d)'.velocity.y = Min(Mov(d).velocity.y, 150)
              ELSE /\ Mov(d)'.velocity.x = Mov(d).velocity.x
                   /\ Mov(d)'.velocity.y =
                          IF MovesTowardAlongY(d, s) THEN 0 ELSE Mov(d).velocity.y ]_vars

\* C28's case: the player, moving right at 100 and falling at 200, was 4
\* into a static body on its right and the call has returned: it touches
\* the body's left edge, has the contact flag of its right side, no
\* horizontal velocity and a fall of 150.
C28_Witness ==
    /\ pc = "done"
    /\ aborted = ""
    /\ pass.overlap = [horizontal |-> 4, vertical |-> 32]
    /\ pass.thePlayer = Entity1
    /\ Col(Entity2).isStatic
    /\ Right(Col(Entity1).currentBoundingBox) = Left(Col(Entity2).currentBoundingBox)
    /\ FlagsSet(Col(Entity1)) = {"collidedRight"}
    /\ Mov(Entity1).velocity = Point2D(0, 150)

\* The call is on the player p and another dynamic body o, both with a
\* location and a velocity, and their boxes overlap.
PlayerMeetsDynamic(p, o) ==
    /\ {p, o} = {Entity1, Entity2}
    /\ p # o
    /\ ~Col(p).isStatic
    /\ ~Col(o).isStatic
    /\ p = pass.thePlayer
    /\ \A e \in {p, o} :
          /\ HasComponentIn(entityManager, "LocationComponent", e)
          /\ HasComponentIn(entityManager, "MovementComponent", e)
    /\ PairOverlap.horizontal > 0
    /\ PairOverlap.vertical > 0

\* C29: after a ResolveCollision call on two dynamic bodies of which
\* exactly one is the player, the other body's velocity along the resolved
\* axis is -0.7 times the one it had and the player's velocity along that
\* axis is the one it had.
C29_NonPlayerReflectsOffPlayer ==
    [][ \A p, o \in {1, 2} :
          (ResolveCall /\ aborted' = "" /\ PlayerMeetsDynamic(p, o)) =>
              IF PairOverlap.horizontal < PairOverlap.vertical
              THEN /\ 10 * Mov(o)'.velocity.x = -7 * Mov(o).velocity.x
                   /\ Mov(p)'.velocity.x = Mov(p).velocity.x
              ELSE /\ 10 * Mov(o)'.velocity.y = -7 * Mov(o).velocity.y
                   /\ Mov(p)'.velocity.y = Mov(p).velocity.y ]_vars

\* The live entities that have a collision component.
Collidables ==
    { e \in 0 .. Len(entityManager.mValid) - 1 :
        /\ ValidEntityIn(entityManager, e)
        /\ HasComponentIn(entityManager, "CollisionComponent", e) }

\* The contact flags of entity e that are set.
FlagsOf(e) == FlagsSet(GetComponentIn(entityManager, "CollisionComponent", e))

\* The contact flags the last CollisionSystem pass left entity e with: none
\* when no pass has ended yet, and none for an entity created since (in a
\* new slot, or in the slot of a star that pass removed).
FlagsLeft(e) ==
    IF e + 1 <= Len(trace.flagsAtEnd) /\ e \notin trace.removed
    THEN trace.flagsAtEnd[e + 1]
    ELSE {}

\* C21: everywhere outside CollisionSystem's pair loop, and so when
\* InputSystem and GravitySystem read them and up to the clearing at the
\* start of CollisionSystem, the contact flags of every body are the flags it
\* had when the last CollisionSystem ended (none for a body created since).
C21_OneFrameLag ==
    pc # "CollisionSystem pairs" =>
        \A e \in Collidables : FlagsOf(e) = FlagsLeft(e)

\* GravitySystem is about to read, in the second frame or later, the
\* collidedBottom the player got in the frame before.
C21_Witness ==
    /\ pc = "GravitySystem"
    /\ engine.frames >= 2
    /\ \E e \in Collidables :
           /\ HasComponentIn(entityManager, "InputComponent", e)
           /\ "collidedBottom" \in FlagsOf(e)
           /\ FlagsOf(e) = FlagsLeft(e)

\* The pairs ResolveCollision was called on in the current pass, or in the
\* last one when none is under way, that entity e is a member of.
ResolvedWith(e) == { p \in trace.resolved : e = p[1] \/ e = p[2] }

Candidates == { pass.entities[k] : k \in 1 .. Len(pass.entities) }

\* The pair loop of a pass is over.
PairLoopOver == pc = "CollisionSystem pairs" /\ ~(pass.j < Len(pass.entities))

\* C23: when the pair loop of a pass is over, every live entity with a
\* collision component is in the candidate list, and every pair of two such
\* entities has been examined by the loop.
C23_BroadPhaseComplete ==
    PairLoopOver =>
        /\ \A e \in Collidables : e \in Candidates
        /\ \A e1 \in Collidables, e2 \in Collidables :
               e1 < e2 => <<e1, e2>> \in trace.processed

\* The live static bodies whose world box has been computed.
PlacedStatics ==
    { e \in Collidables : Col(e).isStatic /\ Col(e).boundingBoxInitialized }

\* A collision component but for its four contact flags.
ButFlags(col) ==
    [col EXCEPT !.collidedTop = FALSE, !.collidedBottom = FALSE,
                !.collidedLeft = FALSE, !.collidedRight = FALSE]

\* C26: a step of CollisionSystemUpdate or of CollisionSystem leaves a
\* static body whose world box has been computed with its current box, its
\* previous box and its position, and changes nothing of its collision
\* component but the four contact flags; a pass of the pair loop on two
\* static bodies changes nothing at all.
C26_StaticBodiesImmovable ==
    [][ /\ pc \in {"CollisionSystemUpdate", "CollisionSystem", "CollisionSystem pairs"}
           => \A e \in PlacedStatics :
                  /\ ButFlags(Col(e))' = ButFlags(Col(e))
                  /\ Loc(e)' = Loc(e)
        /\ (CollisionSystemPair /\ BothValid(entityManager, Entity1, Entity2)
                /\ Col(Entity1).isStatic /\ Col(Entity2).isStatic)
           => entityManager' = entityManager
      ]_vars

\* In the second frame or later the pair loop has resolved the player
\* against the wall: the wall has its collidedLeft set and its box where it
\* was computed on first use, and the ground, whose box overlaps the wall's,
\* has no flag on the wall's side.
C26_Witness ==
    /\ pc = "CollisionSystem pairs"
    /\ engine.frames >= 2
    /\ {1, 2} \subseteq PlacedStatics
    /\ RectIntersect(Col(1).currentBoundingBox, Col(2).currentBoundingBox)
    /\ <<1, 2>> \in trace.processed
    /\ FlagsOf(2) = {"collidedLeft"}
    /\ Col(2).currentBoundingBox.topLeft =
           Point2D(Loc(2).position.x + Col(2).boundingBoxOffset.x,
                   Loc(2).position.y + Col(2).boundingBoxOffset.y)

\* The live bodies that are not static.
DynamicBodies == { e \in Collidables : ~Col(e).isStatic }

\* The box of body e is where its position and its offset put it.
InLockstep(e) ==
    Col(e).currentBoundingBox.topLeft =
        Point2D(Loc(e).position.x + Col(e).boundingBoxOffset.x,
                Loc(e).position.y + Col(e).boundingBoxOffset.y)

\* C27: from the first loop of CollisionSystem to its end, so after each
\* pass of the pair loop and when the system returns, the current box of
\* every dynamic body is at its position plus its offset; and no step
\* changes the offset of a body or the width and height of its box.
C27_BoxAndPositionInLockstep ==
    /\ [](pc \in {"CollisionSystem pairs", After("CollisionSystem")} =>
             \A e \in DynamicBodies : InLockstep(e))
    /\ [][ \A e \in Collidables :
               HasComponentIn(entityManager, "CollisionComponent", e)' =>
                   /\ Col(e)'.boundingBoxOffset = Col(e).boundingBoxOffset
                   /\ Col(e)'.currentBoundingBox.width = Col(e).currentBoundingBox.width
                   /\ Col(e)'.currentBoundingBox.height = Col(e).currentBoundingBox.height
         ]_vars

\* The pair loop has pushed the player up out of the ground and left out of
\* the wall: its position is not the one it was created at, and its box has
\* followed.
C27_Witness ==
    /\ pc = "CollisionSystem pairs"
    /\ pass.thePlayer \in DynamicBodies
    /\ {<<1, pass.thePlayer>>, <<2, pass.thePlayer>>} \subseteq trace.resolved
    /\ Loc(pass.thePlayer).position # Point2D(0, 0)
    /\ InLockstep(pass.thePlayer)

\* The camera's shake, and a pass of the pair loop that sets its trigger for
\* a shake along X (horizontal) or along Y.
Shake == GetComponentIn(entityManager, "CameraShake", pass.theCamera)
ShakeTriggered(horizontal) ==
    /\ CollisionSystemPair
    /\ Shake'.isShaking
    /\ Shake'.horizontal = horizontal
    /\ ~Shake.isShaking \/ Shake.horizontal # horizontal


\* The contact flags of a contact type: the wall's, for a shake along X, and
\* the vertical ones.
ContactType(horizontal) ==
    IF horizontal THEN {"collidedLeft", "collidedRight"}
    ELSE {"collidedTop", "collidedBottom"}

\* C30: a pass of the pair loop sets the shake trigger for a contact type
\* only if the contact of that type the player is now in is not one it was
\* in when the last CollisionSystem ended: a contact that persists from one
\* frame to the next does not set the trigger again.
C30_OneShotShake ==
    [][ \A horizontal \in BOOLEAN :
            ShakeTriggered(horizontal) =>
                FlagsOf(pass.thePlayer)' \cap ContactType(horizontal)
                    \cap FlagsLeft(pass.thePlayer) = {} ]_vars

\* The live bodies that hold an InputComponent: the player.
Players ==
    { e \in Collidables : HasComponentIn(entityManager, "InputComponent", e) }

\* The contact memory of body e.
ContactMemory(e) == <<Col(e).wasStandingLast, Col(e).wasTouchingWallLast>>

\* The contact memory the flags at the end of the last CollisionSystem give.
MemoryOfFlagsLeft(e) ==
    <<"collidedBottom" \in FlagsLeft(e),
      FlagsLeft(e) \cap {"collidedLeft", "collidedRight"} # {}>>

Movables ==
    { e \in 0 .. Len(entityManager.mValid) - 1 :
        /\ ValidEntityIn(entityManager, e)
        /\ HasComponentIn(entityManager, "LocationComponent", e)
        /\ HasComponentIn(entityManager, "MovementComponent", e) }

\* The entity manager with velocity times deltaTime added to the position
\* of every live entity that has both.
Integrated ==
    [entityManager EXCEPT !.comps =
        [k \in 1 .. Len(entityManager.comps) |->
            IF (k - 1) \in Movables
            THEN [entityManager.comps[k] EXCEPT !.LocationComponent.position =
                     Point2D(@.x + OverTime(Mov(k - 1).velocity.x, engine.deltaTime),
                             @.y + OverTime(Mov(k - 1).velocity.y, engine.deltaTime))]
            ELSE entityManager.comps[k]]]

Moving ==
    { e \in 0 .. Len(entityManager.mValid) - 1 :
        /\ ValidEntityIn(entityManager, e)
        /\ HasComponentIn(entityManager, "MovementComponent", e) }

\* Body e is falling, holds an InputComponent and is pressed toward a wall
\* it is flagged in contact with.
PressedToWall(e) ==
    LET keydown == GetComponentIn(entityManager, "InputComponent", e).keydown
    IN  /\ e \in Collidables
        /\ Mov(e).velocity.y > 0
        /\ HasComponentIn(entityManager, "InputComponent", e)
        /\ \/ "collidedLeft" \in FlagsOf(e) /\ "A" \in keydown
           \/ "collidedRight" \in FlagsOf(e) /\ "D" \in keydown

\* The vertical velocity GravitySystem is to leave body e with.
Pulled(e) ==
    IF e \in Collidables /\ "collidedBottom" \in FlagsOf(e)
    THEN Mov(e).velocity.y
    ELSE Mov(e).velocity.y +
             OverTime(IF PressedToWall(e) THEN (GRAVITY * 3) \div 10 ELSE GRAVITY,
                      engine.deltaTime)

\* C33: GravitySystem leaves the velocity of a body whose collidedBottom is
\* set; to the vertical velocity of any other it adds gravity times
\* deltaTime, three tenths of it when the body is falling, holds an
\* InputComponent and is pressed toward a wall it is in contact with; the
\* horizontal velocity, and everything that is not a velocity, stay.
C33_Gravity ==
    [][ GravitySystem =>
            entityManager' =
                [entityManager EXCEPT !.comps =
                    [k \in 1 .. Len(entityManager.comps) |->
                        IF (k - 1) \in Moving
                        THEN [entityManager.comps[k] EXCEPT
                                 !.MovementComponent.velocity.y = Pulled(k - 1)]
                        ELSE entityManager.comps[k]]] ]_vars

\* GravitySystem has just run in a frame of a tenth of a second on a player
\* that fell at 200 while pressed to the wall on its right, not grounded:
\* three tenths of gravity were added.
C33_Witness ==
    /\ pc = After("GravitySystem")
    /\ engine.deltaTime = 100
    /\ \E e \in Players :
           /\ "collidedRight" \in FlagsOf(e)
           /\ "collidedBottom" \notin FlagsOf(e)
           /\ "D" \in GetComponentIn(entityManager, "InputComponent", e).keydown
           /\ Mov(e).velocity.y = FAST_FALL_SPEED + OverTime((GRAVITY * 3) \div 10, 100)

\* Body e was left grounded by the last CollisionSystem pass and nothing has
\* acted on it since: it has no velocity, no key of its is held, and this
\* pass found no contact of it on its top, left or right.
RestsGrounded(e) ==
    /\ "collidedBottom" \in FlagsLeft(e)
    /\ Mov(e).velocity = Point2D(0, 0)
    /\ e \in Players =>
           GetComponentIn(entityManager, "InputComponent", e).keydown = {}
    /\ FlagsOf(e) \subseteq {"collidedBottom"}

\* C34: a dynamic body that ended the frame before grounded and at rest, and
\* on which neither input nor another body acts, has collidedBottom set
\* again when the pair loop of this frame is over.
C34_GroundedIsStable ==
    PairLoopOver =>
        \A e \in DynamicBodies :
            HasComponentIn(entityManager, "MovementComponent", e) /\ RestsGrounded(e)
                => "collidedBottom" \in FlagsOf(e)

\* C35: the id a CreateEntity returns, fresh or taken from the free list,
\* names an entity for which HasComponent<T> is false for every component
\* type T.
C35_CreatedWithoutComponents ==
    [][ \A name \in Names :
            CreateEntity(name) =>
                LET ret == createEntity(name).ret
                IN  \A t \in CompTypes :
                        mEntityToComponentIdx'[ret + 1][t] = INVALID_COMPONENT_INDEX
      ]_vars

\* C35's case: entity 0, the only one there ever was, has been destroyed and
\* created again, components of both types have been stored and removed, and
\* the entity holds none.
C35_Witness ==
    /\ Len(mValid) = 1
    /\ ValidEntity(0)
    /\ 0 \in staleHandles
    /\ \A t \in CompTypes :
           /\ mRegistries[t].mFreeList # <<>>
           /\ size(mRegistries[t]) = 0
           /\ ~HasComponent(t, 0)

\* The score of player p.
ScoreOf(p) == GetComponentIn(entityManager, "ScoreComponent", p).score

\* The pass of the pair loop now taken collects star s for player p: the
\* star, live before it, is destroyed, 10 is added to the score, and the
\* pickup sound is asked for once.
Collects(p, s) ==
    /\ PlayerMeetsStar(p, s)
    /\ ValidEntityIn(entityManager, s)
    /\ ~ValidEntityIn(entityManager', s)
    /\ ScoreOf(p)' = ScoreOf(p) + 10
    /\ trace'.collected = trace.collected + 1
    /\ trace'.sparkle = trace.sparkle + 1

IteratesEntityList ==
    \/ CollisionSystemUpdate
    \/ InputSystem
    \/ GravitySystem
    \/ MovementSystem
    \/ CollisionSystem
    \/ ScoreSystem
    \/ TimeSystem
    \/ CameraSystem
    \/ SpriteSystem
    \/ SpawnSystem

\* C37: a system that goes through the entity list of the manager creates
\* and removes no entity before its loop is over: the list and the free
\* list are at the end of the loop what they were at its start.
C37_NoCreateWhileIterating ==
    [][ IteratesEntityList =>
            /\ entityManager'.mEntities = entityManager.mEntities
            /\ entityManager'.mFreeList = entityManager.mFreeList ]_vars

\* The live entities that hold a SpawnComponent, and the component of one.
Spawners ==
    { e \in 0 .. Len(entityManager.mValid) - 1 :
        /\ ValidEntityIn(entityManager, e)
        /\ HasComponentIn(entityManager, "SpawnComponent", e) }

Spawn(e) == GetComponentIn(entityManager, "SpawnComponent", e)

\* The live entities.
Live == { e \in 0 .. Len(entityManager.mValid) - 1 : ValidEntityIn(entityManager, e) }

\* Entity e is as SpawnSystem makes a new entity for spawner s: it holds a
\* location, a velocity, a sprite and a dynamic collision component, and
\* nothing else.
AsSpawnedBy(e, s) ==
    /\ entityManager.comps[e + 1].has =
           {"LocationComponent", "MovementComponent", "SpriteComponent",
            "CollisionComponent"}
    /\ ~Col(e).isStatic
    /\ GetEntityName(entityManager, e) = Spawn(s).entityType

\* C38: the spawnCount of a spawner whose maxSpawns is not -1 is never above
\* maxSpawns; a call of SpawnSystem removes no entity and creates one entity
\* for each spawner whose spawnCount it raises, by one, and none else, so
\* that a spawner has created spawnCount entities in all; the entity
\* created holds a location, a velocity, a sprite and a dynamic collision
\* component, and the timer of the spawner is at spawnInterval again.
C38_SpawnCap ==
    /\ [](\A s \in Spawners :
              Spawn(s).maxSpawns # -1 => Spawn(s).spawnCount <= Spawn(s).maxSpawns)
    /\ [][ SpawnSystem =>
             LET spawning == { s \in Spawners : Spawn(s)'.spawnCount # Spawn(s).spawnCount }
             IN  /\ Live \subseteq Live'
                 /\ Cardinality(Live' \ Live) = Cardinality(spawning)
                 /\ \A s \in spawning :
                        /\ Spawn(s)'.spawnCount = Spawn(s).spawnCount + 1
                        /\ Spawn(s)'.timeToNextSpawn = Spawn(s).spawnInterval
                        /\ \E e \in Live' \ Live : AsSpawnedBy(e, s)' ]_vars

\* C38's case: the spawner has made MaxSpawns stars in the first two frames
\* and SpawnSystem has run in the third with the time run out again: no
\* star was made.
C38_Witness ==
    /\ pc = After("SpawnSystem")
    /\ engine.frames = MaxFrames
    /\ \E s \in Spawners :
           /\ Spawn(s).maxSpawns = MaxSpawns
           /\ Spawn(s).spawnCount = MaxSpawns
           /\ Spawn(s).timeToNextSpawn <= 0

\* The camera CameraSystem finds, its shake and its timer.
Camera == FirstWith(entityManager, "CameraComponent")
CameraShake == GetComponentIn(entityManager, "CameraShake", Camera)
CameraTimer == GetComponentIn(entityManager, "TimeComponent", Camera)

\* The systems of a frame from the return of CameraSystem on.
FrameEnds == {After("CameraSystem"), After("SpriteSystem"), After("SpawnSystem")}

\* The run is cut short: an assertion has ended the process, or the window
\* is closed and Run returns after this frame.
RunOver == aborted # "" \/ ~engine.isOpen

\* The shortest frame that takes time.
MinDeltaTime ==
    CHOOSE d \in DeltaTimes \ {0} : \A o \in DeltaTimes \ {0} : d <= o

\* CameraSystem has returned with the timer running, and the frames still
\* to come, were they as short as can be, let it run out.
TimerRuns ==
    /\ pc = After("CameraSystem")
    /\ CameraTimer.isRunning
    /\ (MaxFrames - engine.frames) * MinDeltaTime >= CameraTimer.timeRemaining

\* A frame that took no time has begun.
FrameOfNoTime == pc = RunOrder[1] /\ engine.deltaTime = 0

\* C39: the shake trigger is false from the return of CameraSystem to the
\* end of the frame; a CameraSystem that finds it set leaves it false and
\* the timer running at its full duration; the timer changes only there and
\* in TimeSystem while it runs, which counts it down by deltaTime or, at 0,
\* stops it, so that a stopped timer stays stopped until CameraSystem takes
\* a trigger; and a timer running when CameraSystem returns is stopped at
\* some later time, unless the trigger is set again, a frame takes no time,
\* or the run is cut short before.
C39_ShakeConsumed ==
    /\ [](pc \in FrameEnds /\ aborted = "" => ~CameraShake.isShaking)
    /\ [][ /\ CameraSystem /\ aborted' = "" =>
                /\ ~CameraShake'.isShaking
                /\ CameraShake.isShaking =>
                       /\ CameraTimer'.isRunning
                       /\ CameraTimer'.timeRemaining = CameraTimer.totalDuration
           /\ CameraTimer' # CameraTimer =>
                \/ CameraSystem /\ CameraShake.isShaking
                \/ /\ TimeSystem
                   /\ CameraTimer.isRunning
                   /\ IF CameraTimer.timeRemaining - engine.deltaTime > 0
                      THEN CameraTimer' =
                               [CameraTimer EXCEPT !.timeRemaining = @ - engine.deltaTime]
                      ELSE CameraTimer' =
                               [CameraTimer EXCEPT !.isRunning = FALSE,
                                                   !.timeRemaining = CameraTimer.totalDuration]
       ]_vars
    /\ TimerRuns
           ~> (~CameraTimer.isRunning \/ CameraShake.isShaking \/ FrameOfNoTime \/ RunOver)

\* C39's case: in a first frame of a tenth of a second TimeSystem counted
\* the timer down, and CameraSystem, which found the trigger
\* CollisionSystem had set, has started it again at its full duration and
\* cleared the trigger; the frames to come let it run out.
C39_Witness ==
    /\ TimerRuns
    /\ engine.frames = 1
    /\ engine.deltaTime = MinDeltaTime
    /\ ~CameraShake.isShaking
    /\ CameraTimer.isRunning
    /\ CameraTimer.timeRemaining = CameraTimer.totalDuration

=============================================================================
